---- MODULE Spec2Model ----
(***************************************************************************)
(* A model of the spectra-db ingestion pipeline:                           *)
(*   - the append-dedupe NDJSON writer   (scrapers/common/ndjson.py)       *)
(*   - the fetch cache                   (scrapers/common/http.py)         *)
(*   - the bulk-ingest controller        (tools/scrapers/nist_asd/         *)
(*                                        bulk_ingest.py) with the         *)
(*     pipelines it drives (fetch_lines.run, fetch_levels.run)             *)
(*                                                                         *)
(* Each component has its own specification (SpecNdjson, SpecCache, Spec);  *)
(* the variables of the components a specification does not exercise stay  *)
(* at their idle values.                                                   *)
(***************************************************************************)
EXTENDS Integers, Sequences, FiniteSets, TLC

VARIABLES
    \* ---- append_ndjson_dedupe (SpecNdjson) ----
    path,          \* content of the NDJSON file: a sequence of record lines
    before,        \* content of the file when the last call started
    records,       \* the `records` argument of the last call
    n,             \* the value the last call returned
    nd_calls,      \* number of calls made so far
    nd_same,       \* the last call was given the same records as the call before it
    cw,            \* two processes calling it on the same path (SpecWriters)
    \* ---- fetch_cached (SpecCache) ----
    body_files,    \* cache_dir/<key>.body      : key -> bytes
    meta_files,    \* cache_dir/<key>.meta.json : key -> meta
    fc_pc,         \* position inside the fetch_cached call in progress
    fc_args,       \* arguments (key, force) of the call in progress
    fc_resp,       \* response of sess.get held by the call in progress
    fr,            \* what the last finished call returned (FetchResult) or raised
    fc_hist,       \* per key: calls, network calls, forced, raised, first response
    \* ---- bulk_ingest.main / ingest_levels / ingest_lines_adaptive (Spec) ----
    cfg,           \* the BulkConfig of the behaviour (the same for every run)
    ckpt,          \* content of the checkpoint ledger: a sequence of events
    transitions,   \* content of normalized/transitions.ndjson
    states,        \* content of normalized/states.ndjson
    done_levels,   \* main's set of completed spectra
    done_bins,     \* main's set of completed bin keys
    queue,         \* ingest_lines_adaptive: the bins still to process
    splits_used,   \* ingest_lines_adaptive: splits made so far
    total_written, \* ingest_lines_adaptive: records written so far
    pc,            \* position of the process inside main
    cur,           \* the bin popped from the queue: <<lo, hi>>
    attempt,       \* index of the attempt in progress (both retry loops)
    res,           \* FetchRunResult of the last pipeline call
    ret,           \* what ingest_levels / ingest_lines_adaptive returned in this run
    runs,          \* runs of main started so far
    hist,          \* observations of the current run (not program state)
    \* ---- refs.ndjson and enrich_refs (SpecRefs) ----
    refs,          \* content of normalized/refs.ndjson
    refs_before,   \* its content before the last operation on it
    rf_op,         \* the last operation: "none", "append" or "enrich"
    rf_ops,        \* number of operations so far
    \* ---- pure functions applied to drawn inputs ----
    pf_op,         \* the function applied last ("none" before the first)
    pf_in,         \* its arguments
    pf_out,        \* what it returned
    \* ---- nist_webbook normalize_cache.run (SpecNormalizeCache) ----
    wb_cache,      \* the WebBook cache directory: key -> entry
    ingest_log,    \* content of webbook_ingested.ndjson
    nc_res,        \* NormalizeCacheResult of the last run
    nc_hist        \* observations: per key normalizer calls, runs, log before

nd_vars == <<path, before, records, n, nd_calls, nd_same, cw>>
fc_vars == <<body_files, meta_files, fc_pc, fc_args, fc_resp, fr, fc_hist>>
cache_files == <<body_files, meta_files>>
fc_call_vars == <<fc_pc, fc_args, fc_resp, fr, fc_hist>>
bi_vars == <<cfg, ckpt, transitions, states, done_levels, done_bins, queue,
             splits_used, total_written, pc, cur, attempt, res, ret, runs, hist>>
rf_vars == <<refs, refs_before, rf_op, rf_ops>>
pf_vars == <<pf_op, pf_in, pf_out>>
nc_vars == <<wb_cache, ingest_log, nc_res, nc_hist>>

-----------------------------------------------------------------------------
(* Generic helpers *)

SeqsUpTo(S, k) == UNION {[1..m -> S] : m \in 0..k}

Min(a, b) == IF a <= b THEN a ELSE b

-----------------------------------------------------------------------------
(***************************************************************************)
(* append_ndjson_dedupe                                                    *)
(***************************************************************************)

\* bounds of the writer's inputs
MaxRecs == 2        \* records per call
MaxCalls == 3       \* calls per behaviour

\* The id values the pipeline produces are strings (make_id hashes, ref keys).
IdStrings == {"a", "b"}
\* rec.get(id_field): <<>> is None (field missing), <<s>> is the id s.
RecIds == {<<>>} \cup {<<s>> : s \in IdStrings}
Payloads == {"p", "q"}
Records == [id : RecIds, val : Payloads]

\* str(rid) for an id that is already a str
str(rid) == rid

\* lines 16-29: the ids of the lines already in the file
ExistingIds(file) ==
    {str(file[i].id[1]) : i \in {j \in DOMAIN file : file[j].id # <<>>}}

\* lines 33-42 with `seen.add(rid_s)` dropped
RECURSIVE AppendLoopNoMark(_, _, _, _)
AppendLoopNoMark(file, seen, recs, cnt) ==
    IF recs = <<>> THEN [file |-> file, n |-> cnt]
    ELSE LET rec == Head(recs) IN
         IF rec.id = <<>> THEN AppendLoopNoMark(file, seen, Tail(recs), cnt)
         ELSE IF str(rec.id[1]) \in seen
              THEN AppendLoopNoMark(file, seen, Tail(recs), cnt)
              ELSE AppendLoopNoMark(Append(file, rec), seen, Tail(recs), cnt + 1)

\* lines 33-42 with the `rid_s in seen` test dropped
RECURSIVE AppendLoopNoCheck(_, _, _, _)
AppendLoopNoCheck(file, seen, recs, cnt) ==
    IF recs = <<>> THEN [file |-> file, n |-> cnt]
    ELSE LET rec == Head(recs) IN
         IF rec.id = <<>> THEN AppendLoopNoCheck(file, seen, Tail(recs), cnt)
         ELSE AppendLoopNoCheck(Append(file, rec), seen \cup {str(rec.id[1])},
                                Tail(recs), cnt + 1)

\* lines 31-43: the append loop over `records`
RECURSIVE AppendLoop(_, _, _, _)
AppendLoop(file, seen, recs, cnt) ==
    IF recs = <<>> THEN [file |-> file, n |-> cnt]
    ELSE LET rec == Head(recs) IN
         IF rec.id = <<>> THEN AppendLoop(file, seen, Tail(recs), cnt)
         ELSE IF str(rec.id[1]) \in seen
              THEN AppendLoop(file, seen, Tail(recs), cnt)
              ELSE AppendLoop(Append(file, rec), seen \cup {str(rec.id[1])},
                              Tail(recs), cnt + 1)

\* the whole function: scan the file once, then append
append_ndjson_dedupe(file, recs) == AppendLoop(file, ExistingIds(file), recs, 0)

\* bounds of the calls of two processes on one path
MaxCwRecs == 1      \* records per call
MaxCwCalls == 3     \* calls begun per behaviour

Writers == {"w1", "w2"}
Other(w) == CHOOSE other \in Writers : other # w

\* the records process w passes: any id, the payload tells the lines of the
\* two processes apart
CwRecords(w) == {[id |-> i, val |-> w] : i \in RecIds}

\* A process and its last call: pc is "out" outside a call and "append"
\* between the scan and the return; records the argument, rest the records
\* the loop has not reached, seen the local set, n the local counter.
\* Observations: scanned is the set the scan built, wrote the ids the call
\* appended, raced whether this call and the other process's call both
\* scanned before either appended.
CwOut == [pc |-> "out", records |-> <<>>, rest |-> <<>>, seen |-> {}, n |-> 0,
          scanned |-> {}, wrote |-> {}, raced |-> FALSE]

\* calls counts the calls begun; overlap tells whether a call ever began
\* while the other process was inside one
CwStart == [proc |-> [w \in Writers |-> CwOut], calls |-> 0, overlap |-> FALSE]

NdIdle ==
    /\ cw = CwStart
    /\ path = <<>>
    /\ before = <<>>
    /\ records = <<>>
    /\ n = 0
    /\ nd_calls = 0
    /\ nd_same = FALSE

\* one call of append_ndjson_dedupe(path, recs, id_field) by the single writer
NdCall ==
    /\ nd_calls < MaxCalls
    /\ \E recs \in SeqsUpTo(Records, MaxRecs) :
          LET r == append_ndjson_dedupe(path, recs) IN
          /\ path' = r.file
          /\ n' = r.n
          /\ before' = path
          /\ records' = recs
          /\ nd_same' = (nd_calls >= 1 /\ recs = records)
          /\ nd_calls' = nd_calls + 1
    /\ UNCHANGED cw

\* lines 34-42 with the test made against the ids in the file at that moment
\* as well, as a writer holding a lock on the file would see them
CwIterationRereads(file, seen, rec) ==
    IF rec.id = <<>> THEN [file |-> file, seen |-> seen, n |-> 0]
    ELSE IF str(rec.id[1]) \in seen \cup ExistingIds(file)
         THEN [file |-> file, seen |-> seen, n |-> 0]
         ELSE [file |-> Append(file, rec), seen |-> seen \cup {str(rec.id[1])},
               n |-> 1]

\* lines 34-42: one round of the append loop, on the file as it is when the
\* line is written; n is what the round adds to the counter
CwIteration(file, seen, rec) ==
    IF rec.id = <<>> THEN [file |-> file, seen |-> seen, n |-> 0]
    ELSE IF str(rec.id[1]) \in seen
         THEN [file |-> file, seen |-> seen, n |-> 0]
         ELSE [file |-> Append(file, rec), seen |-> seen \cup {str(rec.id[1])},
               n |-> 1]

\* lines 14-32: a process enters the function, scans the file into `seen`
\* and opens it for appending
CwScan ==
    /\ cw.calls < MaxCwCalls
    /\ \E w \in Writers : \E recs \in SeqsUpTo(CwRecords(w), MaxCwRecs) :
          LET o == cw.proc[Other(w)]
              race == o.pc = "append" /\ o.wrote = {}
          IN  /\ cw.proc[w].pc = "out"
              /\ cw' = [proc |-> [cw.proc EXCEPT
                                    ![w] = [pc |-> "append", records |-> recs,
                                            rest |-> recs,
                                            seen |-> ExistingIds(path), n |-> 0,
                                            scanned |-> ExistingIds(path),
                                            wrote |-> {}, raced |-> race],
                                    ![Other(w)].raced = IF race THEN TRUE ELSE @],
                         calls |-> cw.calls + 1,
                         overlap |-> cw.overlap \/ o.pc = "append"]
    /\ UNCHANGED <<path, before, records, n, nd_calls, nd_same>>

\* lines 33-42: a process inside the loop handles its next record; an
\* appended line reaches the file (opened with "a") at its end
CwWrite ==
    /\ \E w \in Writers :
          /\ cw.proc[w].pc = "append"
          /\ cw.proc[w].rest # <<>>
          /\ \E r \in {CwIteration(path, cw.proc[w].seen, Head(cw.proc[w].rest))} :
                /\ path' = r.file
                /\ cw' = [cw EXCEPT
                             !.proc[w].rest = Tail(@),
                             !.proc[w].seen = r.seen,
                             !.proc[w].n = @ + r.n,
                             !.proc[w].wrote = @ \cup (r.seen \ cw.proc[w].seen)]
    /\ UNCHANGED <<before, records, n, nd_calls, nd_same>>

\* line 43: the loop is over, the file is closed and the call returns n
CwReturn ==
    /\ \E w \in Writers :
          /\ cw.proc[w].pc = "append"
          /\ cw.proc[w].rest = <<>>
          /\ cw' = [cw EXCEPT !.proc[w].pc = "out"]
    /\ UNCHANGED <<path, before, records, n, nd_calls, nd_same>>

-----------------------------------------------------------------------------
(***************************************************************************)
(* fetch_cached                                                            *)
(***************************************************************************)

MaxFetchCalls == 3  \* fetch_cached calls per behaviour

\* Python values used as request parameters
PyInt(i) == [t |-> "int", v |-> i]
PyStr(s) == [t |-> "str", v |-> s]
\* a float parameter; x stands for the float x / Scale
PyFloat(x) == [t |-> "float", v |-> x]
IntStr == (1 :> "1") @@ (2 :> "2") @@ (2000 :> "2000")
\* str(v) of a parameter value; repr of a float is one-to-one
str_param(v) ==
    IF v.t = "str" THEN v.v
    ELSE IF v.t = "int" THEN IntStr[v.v]
    ELSE <<"repr", v.v>>
\* int(s) of a decimal string
int_of_str(s) == CHOOSE i \in DOMAIN IntStr : IntStr[i] = s

\* the (url, params) pairs the calls are made with
Requests ==
    { [url |-> "https://svc/x",
       params |-> << <<"a", PyInt(1)>>, <<"b", PyInt(2)>> >>],
      [url |-> "https://svc/x",
       params |-> << <<"a", PyStr("1")>>, <<"b", PyInt(2)>> >>],
      [url |-> "https://svc/x",
       params |-> << <<"a", PyInt(2)>>, <<"b", PyInt(2)>> >>] }

\* A dict is the sequence of its (name, value) pairs in insertion order; the
\* names of a dict are distinct.
DictHas(d, k) == \E i \in DOMAIN d : d[i][1] = k
DictGet(d, k) == d[CHOOSE i \in DOMAIN d : d[i][1] = k][2]

\* the parameter names of the model in Python's string order
ParamOrder == <<"a", "b", "c", "low_w", "page_size", "spectra", "spectrum", "upp_w">>

\* the names of ParamOrder that the dict d has, in that order
SortedNames(d) == SelectSeq(ParamOrder, LAMBDA k : DictHas(d, k))

\* sorted(items) for the items of one dict: the names differ, so the names
\* decide and the items come out in the ascending order of their names.  The
\* list and its names are bound once, as v and names.
sorted(items) ==
    CHOOSE s \in UNION {{[i \in DOMAIN names |-> <<names[i], DictGet(v, names[i])>>] :
                            names \in {SortedNames(v)}} : v \in {items}} : TRUE

\* ((k, str(v)) for k, v in params.items()), also {k: str(v) ...} of the metadata
StrItems(params) == [i \in DOMAIN params |-> <<params[i][1], str_param(params[i][2])>>]

\* a key made of the items in insertion order
StableRequestKeyUnsorted(url, params) ==
    <<"sha256", <<url>> \o StrItems(params)>>

\* stable_request_key: the blob is the url followed by one "k=v" line per
\* sorted item; a line is kept as the pair <<k, v>> and sha256 is taken to be
\* collision-free
stable_request_key(url, params) ==
    <<"sha256", <<url>> \o sorted(StrItems(params))>>

FcKeys == {stable_request_key(r.url, r.params) : r \in Requests}

\* what sess.get may return: success, a permanent error, a transient error
Statuses == {200, 404, 503}
Contents == {"x", "y"}
Responses == [status_code : Statuses, content : Contents]

sha256_bytes(b) == <<"sha256", b>>

\* the meta record written next to the body (retrieved_utc left out)
MetaOf(params, resp) ==
    [status_code |-> resp.status_code,
     params |-> StrItems(params),
     content_sha256 |-> sha256_bytes(resp.content)]

\* `body_path.exists() and meta_path.exists() and not force`, served only
\* when the stored status is 200
CacheHitOnlyOk(bf, mf, key, force) ==
    /\ key \in DOMAIN bf
    /\ key \in DOMAIN mf
    /\ ~force
    /\ mf[key].status_code = 200

\* `body_path.exists() and meta_path.exists() and not force`
CacheHit(bf, mf, key, force) ==
    /\ key \in DOMAIN bf
    /\ key \in DOMAIN mf
    /\ ~force

\* the FetchResult of a cache hit
CachedResult(mf, key) ==
    [kind |-> "result", key |-> key, status_code |-> mf[key].status_code,
     content_path |-> key, from_cache |-> TRUE, delays |-> 0]

\* the FetchResult of a network fetch; delays is the number of politeness
\* delays the call slept before it returned
FetchedResult(key, resp, delays) ==
    [kind |-> "result", key |-> key, status_code |-> resp.status_code,
     content_path |-> key, from_cache |-> FALSE, delays |-> delays]

\* sess.get raised (connection error, timeout): the exception leaves fetch_cached
Raised(key) ==
    [kind |-> "raise", key |-> key, status_code |-> 0,
     content_path |-> key, from_cache |-> FALSE, delays |-> 0]

\* write (or overwrite) one file of the cache directory
WriteFile(files, key, data) ==
    [k \in DOMAIN files \cup {key} |-> IF k = key THEN data ELSE files[k]]

\* the cache entry of a key: its body and its metadata, <<>> where the file
\* does not exist
EntryOf(bf, mf, key) ==
    [body |-> IF key \in DOMAIN bf THEN <<bf[key]>> ELSE <<>>,
     meta |-> IF key \in DOMAIN mf THEN <<mf[key]>> ELSE <<>>]

NoHist == [done |-> 0, net |-> 0, forced |-> FALSE, raised |-> FALSE, first |-> <<>>]

FcIdle ==
    /\ body_files = <<>>
    /\ meta_files = <<>>
    /\ fc_pc = "idle"
    /\ fc_args = <<>>
    /\ fc_resp = <<>>
    /\ fr = <<>>
    /\ fc_hist = [k \in FcKeys |-> NoHist]

\* number of fetch_cached calls that have returned or raised
RECURSIVE SumDone(_, _)
SumDone(h, T) ==
    IF T = {} THEN 0
    ELSE LET k == CHOOSE x \in T : TRUE IN h[k].done + SumDone(h, T \ {k})

FcCalls == SumDone(fc_hist, FcKeys)

\* lines 77-92: a call answered from the cache
FcHit ==
    /\ fc_pc = "idle"
    /\ FcCalls < MaxFetchCalls
    /\ \E r \in Requests, force \in BOOLEAN :
          LET key == stable_request_key(r.url, r.params) IN
          /\ CacheHit(body_files, meta_files, key, force)
          /\ fr' = CachedResult(meta_files, key)
          /\ fc_hist' = [fc_hist EXCEPT ![key].done = @ + 1]
    /\ UNCHANGED <<body_files, meta_files, fc_pc, fc_args, fc_resp>>

\* lines 77-81, 94: a call that goes to the network
FcMiss ==
    /\ fc_pc = "idle"
    /\ FcCalls < MaxFetchCalls
    /\ \E r \in Requests, force \in BOOLEAN :
          LET key == stable_request_key(r.url, r.params) IN
          /\ ~CacheHit(body_files, meta_files, key, force)
          /\ fc_args' = [key |-> key, params |-> r.params, force |-> force,
                          slept |-> 0,
                          entry |-> EntryOf(body_files, meta_files, key)]
          /\ fc_hist' = [fc_hist EXCEPT ![key].forced = @ \/ force]
    /\ fc_pc' = "get"
    /\ UNCHANGED <<body_files, meta_files, fc_resp, fr>>

\* line 98: sess.get returns a response, whatever its status
FcGetResponse ==
    /\ fc_pc = "get"
    /\ \E resp \in Responses :
          /\ fc_resp' = resp
          /\ fc_hist' = [fc_hist EXCEPT
                ![fc_args.key].net = @ + 1,
                ![fc_args.key].first = IF @ = <<>> THEN <<resp>> ELSE @]
    /\ fc_pc' = "write_body"
    /\ UNCHANGED <<body_files, meta_files, fc_args, fr>>

\* sess.get raises after the body file was opened for writing
FcGetRaiseTruncating ==
    /\ fc_pc = "get"
    /\ fr' = Raised(fc_args.key)
    /\ fc_hist' = [fc_hist EXCEPT ![fc_args.key].net = @ + 1,
                                  ![fc_args.key].raised = TRUE,
                                  ![fc_args.key].done = @ + 1]
    /\ body_files' = WriteFile(body_files, fc_args.key, "")
    /\ fc_pc' = "idle"
    /\ fc_args' = <<>>
    /\ UNCHANGED <<meta_files, fc_resp>>

\* line 98: sess.get raises; nothing was written, the call ends
FcGetRaise ==
    /\ fc_pc = "get"
    /\ fr' = Raised(fc_args.key)
    /\ fc_hist' = [fc_hist EXCEPT ![fc_args.key].net = @ + 1,
                                  ![fc_args.key].raised = TRUE,
                                  ![fc_args.key].done = @ + 1]
    /\ fc_pc' = "idle"
    /\ fc_args' = <<>>
    /\ UNCHANGED <<body_files, meta_files, fc_resp>>

\* line 101: body_path.write_bytes(resp.content)
FcWriteBody ==
    /\ fc_pc = "write_body"
    /\ body_files' = WriteFile(body_files, fc_args.key, fc_resp.content)
    /\ fc_pc' = "write_meta"
    /\ UNCHANGED <<meta_files, fc_args, fc_resp, fr, fc_hist>>

\* lines 102-110: meta_path.write_text(...)
FcWriteMeta ==
    /\ fc_pc = "write_meta"
    /\ meta_files' = WriteFile(meta_files, fc_args.key, MetaOf(fc_args.params, fc_resp))
    /\ fc_pc' = "sleep"
    /\ UNCHANGED <<body_files, fc_args, fc_resp, fr, fc_hist>>

\* a network call that goes on to the return without the delay
FcSleepSkipped ==
    /\ fc_pc = "sleep"
    /\ fc_pc' = "return"
    /\ UNCHANGED <<body_files, meta_files, fc_args, fc_resp, fr, fc_hist>>

\* lines 112-113: time.sleep(polite_delay_s)
FcSleep ==
    /\ fc_pc = "sleep"
    /\ fc_args' = [fc_args EXCEPT !.slept = @ + 1]
    /\ fc_pc' = "return"
    /\ UNCHANGED <<body_files, meta_files, fc_resp, fr, fc_hist>>

\* lines 115-123: return the FetchResult
FcReturn ==
    /\ fc_pc = "return"
    /\ fr' = FetchedResult(fc_args.key, fc_resp, fc_args.slept)
    /\ fc_hist' = [fc_hist EXCEPT ![fc_args.key].done = @ + 1]
    /\ fc_pc' = "idle"
    /\ fc_args' = <<>>
    /\ fc_resp' = <<>>
    /\ UNCHANGED <<body_files, meta_files>>

\* the process is killed inside fetch_cached, after the cache test: the files
\* written so far stay, the call returns nothing
FcCrash ==
    /\ fc_pc \in {"get", "write_body", "write_meta", "sleep", "return"}
    /\ fr' = [kind |-> "crash", key |-> fc_args.key, status_code |-> 0,
              content_path |-> fc_args.key, from_cache |-> FALSE,
              delays |-> fc_args.slept]
    /\ fc_hist' = [fc_hist EXCEPT ![fc_args.key].done = @ + 1]
    /\ fc_pc' = "idle"
    /\ fc_args' = <<>>
    /\ fc_resp' = <<>>
    /\ UNCHANGED <<body_files, meta_files>>

-----------------------------------------------------------------------------
(***************************************************************************)
(* The bulk-ingest controller: configuration, numbers, ledger              *)
(***************************************************************************)

MaxSplits == 2      \* cfg.max_splits ranges over 0..MaxSplits
MaxRetries == 1     \* cfg.max_retries ranges over 0..MaxRetries
MaxRuns == 2        \* runs of main() per behaviour

\* Wavelengths are binary fixed-point numbers: the integer x stands for the
\* float x / Scale.  Every configured value is a multiple of Scale / 2 and a
\* bin is halved at most MaxSplits times, so every value the code computes is
\* a multiple of 1 / Scale and the float arithmetic is exact.
Scale == 2 ^ (MaxSplits + 1)
Pow5 == 5 ^ (MaxSplits + 1)

PageSize == 2000

SPECTRUM == "H I"
LINE_UNIT == "nm"
WAVELENGTH_TYPE == "vacuum"

\* number of decimal digits of a natural number
RECURSIVE NumDigits(_)
NumDigits(m) == IF m < 10 THEN 1 ELSE 1 + NumDigits(m \div 10)

\* m rounded half-even to d significant decimal digits
RoundSig(m, d) ==
    IF NumDigits(m) <= d THEN m
    ELSE LET q == 10 ^ (NumDigits(m) - d)
             lo == (m \div q) * q
             r == m - lo
         IN IF 2 * r < q THEN lo
            ELSE IF 2 * r > q THEN lo + q
            ELSE IF (m \div q) % 2 = 0 THEN lo ELSE lo + q

\* float(f"{x:.12g}"): x / Scale = (x * 5^k) / 10^k is printed with 12
\* significant digits; the result is the decimal numerator over 10^k.
fmt12g(x) == RoundSig(x * Pow5, 12)

\* lines 210-212: key = (spec, lo_k, hi_k, cfg.line_unit, cfg.wavelength_type)
BinKey(lo, hi) == <<SPECTRUM, fmt12g(lo), fmt12g(hi), LINE_UNIT, WAVELENGTH_TYPE>>

\* retry on every failure, whatever the status
ShouldRetryAlways(status_code) == TRUE

\* _should_retry: a status is <<>> (None) or <<code>>
should_retry(status_code) == status_code \in {<<429>>, <<502>>, <<503>>, <<504>>}

\* _make_bins: n = ceil((wmax - wmin) / width) bins of that width, the last
\* one clipped to wmax
make_bins(wmin, wmax, width) ==
    LET cnt == ((wmax - wmin) + width - 1) \div width IN
    [i \in 1..cnt |->
        LET lo == wmin + (i - 1) * width IN <<lo, Min(wmax, lo + width)>>]

\* _load_lines_checkpoint: the keys of the events with kind "lines" and ok true
load_lines_checkpoint(ledger) ==
    {<<ledger[i].spectrum, ledger[i].lo, ledger[i].hi, ledger[i].unit,
       ledger[i].wavelength_type>> :
        i \in {j \in DOMAIN ledger : ledger[j].kind = "lines" /\ ledger[j].ok}}

\* _load_levels_checkpoint: the spectra of the events with kind "levels" and ok true
load_levels_checkpoint(ledger) ==
    {ledger[i].spectrum :
        i \in {j \in DOMAIN ledger : ledger[j].kind = "levels" /\ ledger[j].ok}}

\* a ledger write that puts the event in front of the file
AppendCheckpointFront(ledger, obj) == <<obj>> \o ledger

\* a ledger write that writes the line twice
AppendCheckpointTwice(ledger, obj) == Append(Append(ledger, obj), obj)

\* _append_checkpoint: open(path, "a") and write one line
append_checkpoint(ledger, obj) == Append(ledger, obj)

\* the event ingest_lines_adaptive logs for a bin (ts_utc, message left out)
LinesEvent(ok, lo, hi, written, parsed_rows, page_size, status, raw_path) ==
    [kind |-> "lines", ok |-> ok, spectrum |-> SPECTRUM,
     lo |-> fmt12g(lo), hi |-> fmt12g(hi),
     unit |-> LINE_UNIT, wavelength_type |-> WAVELENGTH_TYPE,
     written |-> written, parsed_rows |-> parsed_rows, page_size |-> page_size,
     status |-> status, raw_path |-> raw_path]

\* the event ingest_levels logs for an attempt
LevelsEvent(ok, written, status, raw_path) ==
    [kind |-> "levels", ok |-> ok, spectrum |-> SPECTRUM,
     written |-> written, status |-> status, raw_path |-> raw_path]

\* a truncation test that wants more rows than the page holds
TruncatedAbove(parsed_rows, page_size) == page_size > 0 /\ parsed_rows > page_size

\* line 309: truncated = (page_size > 0) and (parsed_rows >= page_size)
Truncated(parsed_rows, page_size) == page_size > 0 /\ parsed_rows >= page_size

\* a split that keeps only the lower half
SplitLowerOnly(lo, hi) == << <<lo, (lo + hi) \div 2>> >>

\* a split that puts the upper half in front
SplitUpperFirst(lo, hi) == << <<(lo + hi) \div 2, hi>>, <<lo, (lo + hi) \div 2>> >>

\* lines 317-321: mid = (lo + hi) / 2; the halves, lower first
SplitBin(lo, hi) == << <<lo, (lo + hi) \div 2>>, <<(lo + hi) \div 2, hi>> >>

\* line 245: _sleep_backoff(attempt, cfg.backoff_base_s), added to the sleeps
\* slept so far
backoff_sleep(sleeps) == Append(sleeps, "backoff")

\* a loop that goes to the next bin without the sleep
PoliteSleepSkipped(sleeps) == sleeps

\* line 325: time.sleep(cfg.polite_sleep_s), added to the sleeps slept so far
polite_sleep(sleeps) == Append(sleeps, "polite")

\* the split test that stops at twice min_bin
MaySplitWide(width, min_bin, used, max_splits) ==
    ~(width <= 2 * min_bin) /\ ~(used >= max_splits)

\* lines 312-316: a truncated bin is split unless width <= min_bin or
\* splits_used >= max_splits
MaySplit(width, min_bin, used, max_splits) ==
    ~(width <= min_bin) /\ ~(used >= max_splits)

-----------------------------------------------------------------------------
(***************************************************************************)
(* The pipelines: fetch_cached as one step, fetch_lines.run,               *)
(* fetch_levels.run                                                        *)
(***************************************************************************)

LINES_URL == "https://physics.nist.gov/cgi-bin/ASD/lines1.pl"
LEVELS_URL == "https://physics.nist.gov/cgi-bin/ASD/energy1.pl"

\* build_lines_params: the parameters that vary, and page_size
build_lines_params(lo, hi) ==
    << <<"spectra", PyStr(SPECTRUM)>>, <<"low_w", PyFloat(lo)>>,
       <<"upp_w", PyFloat(hi)>>, <<"page_size", PyInt(PageSize)>> >>

\* build_levels_params
build_levels_params ==
    << <<"spectrum", PyStr(SPECTRUM)>>, <<"page_size", PyInt(PageSize)>> >>

\* A response body is the table it parses to: rows is the number of parsed
\* rows, recs the ids of the records its rows normalise to (a row without a
\* wavelength yields none, so there may be fewer ids than rows).
EmptyTable == [rows |-> 0, recs |-> <<>>]
LineTables ==
    { EmptyTable,
      [rows |-> 1, recs |-> <<"t1">>],
      [rows |-> PageSize, recs |-> <<"t1", "t2">>] }
LevelTables == { EmptyTable, [rows |-> 1, recs |-> <<"s1">>] }

\* what the network does with one request
RaiseOutcome == [kind |-> "raise", status_code |-> 0, content |-> EmptyTable]
ErrorOutcomes ==
    {[kind |-> "resp", status_code |-> s, content |-> EmptyTable] :
        s \in Statuses \ {200}}
LinesOutcomes ==
    {RaiseOutcome} \cup ErrorOutcomes
    \cup {[kind |-> "resp", status_code |-> 200, content |-> t] : t \in LineTables}
LevelsOutcomes ==
    {RaiseOutcome} \cup ErrorOutcomes
    \cup {[kind |-> "resp", status_code |-> 200, content |-> t] : t \in LevelTables}

\* fetch_cached run to completion; outcome is what sess.get does if it is called
fetch_cached(bf, mf, url, params, force, outcome) ==
    LET key == stable_request_key(url, params) IN
    IF CacheHit(bf, mf, key, force)
    THEN [bf |-> bf, mf |-> mf, fr |-> CachedResult(mf, key), net |-> FALSE]
    ELSE IF outcome.kind = "raise"
    THEN [bf |-> bf, mf |-> mf, fr |-> Raised(key), net |-> TRUE]
    ELSE [bf |-> WriteFile(bf, key, outcome.content),
          mf |-> WriteFile(mf, key, MetaOf(params, outcome)),
          fr |-> FetchedResult(key, outcome, 1), net |-> TRUE]

\* FetchRunResult; status_code and raw_path are <<>> for None
FetchRunResult(ok, written, status_code, message, raw_path) ==
    [ok |-> ok, written |-> written, status_code |-> status_code,
     message |-> message, raw_path |-> raw_path]

\* make_id: prefix and the hash of prefix|part|part...; the hash is taken to
\* be collision-free and a row name stands for the parts the id is made of
make_id(prefix, parts) == <<prefix, parts>>

\* a transition record whose id also covers the requested range
MakeTransitionRecordOfBin(row, lo, hi) ==
    [id |-> <<make_id("trans", <<row, lo, hi>>)>>,
     val |-> [row |-> row, notes |-> <<lo, hi>>]]

\* make_transition_record as fetch_lines.run calls it: the id is made of the
\* row's iso_id, wavelength, unit, uncertainty, type and ref key; notes
\* carries the requested range [min_wav, max_wav]
make_transition_record(row, lo, hi) ==
    [id |-> <<make_id("trans", row)>>,
     val |-> [row |-> row, notes |-> <<lo, hi>>]]

\* make_state_record: the id is made of the row's iso_id, configuration,
\* term, J, energy and ref key
make_state_record(row) ==
    [id |-> <<make_id("state", row)>>,
     val |-> [row |-> row, notes |-> <<>>]]

\* the records fetch_lines.run builds from the rows of a table
TableRecords(table, lo, hi) ==
    [i \in DOMAIN table.recs |-> make_transition_record(table.recs[i], lo, hi)]

\* the records fetch_levels.run builds from the rows of a table
StateRecords(table) ==
    [i \in DOMAIN table.recs |-> make_state_record(table.recs[i])]

\* fetch_lines.run (lines 192-504)
run_lines(bf, mf, trans, lo, hi, force, outcome) ==
    LET params == build_lines_params(lo, hi)
        f == fetch_cached(bf, mf, LINES_URL, params, force, outcome)
        key == f.fr.key
    IN  IF f.fr.kind = "raise"
        THEN [bf |-> f.bf, mf |-> f.mf, trans |-> trans, net |-> f.net,
              res |-> FetchRunResult(FALSE, 0, <<>>, "Exception", <<>>)]
        ELSE IF f.fr.status_code # 200
        THEN [bf |-> f.bf, mf |-> f.mf, trans |-> trans, net |-> f.net,
              res |-> FetchRunResult(FALSE, 0, <<f.fr.status_code>>, "HTTP", <<key>>)]
        ELSE IF f.bf[key].rows = 0
        THEN [bf |-> f.bf, mf |-> f.mf, trans |-> trans, net |-> f.net,
              res |-> FetchRunResult(TRUE, 0, <<200>>, "OK (0 rows)", <<key>>)]
        ELSE LET w == append_ndjson_dedupe(trans, TableRecords(f.bf[key], lo, hi))
             IN [bf |-> f.bf, mf |-> f.mf, trans |-> w.file, net |-> f.net,
                 res |-> FetchRunResult(TRUE, w.n, <<200>>, "OK", <<key>>)]

\* fetch_levels.run (lines 141-317)
run_levels(bf, mf, sts, force, outcome) ==
    LET params == build_levels_params
        f == fetch_cached(bf, mf, LEVELS_URL, params, force, outcome)
        key == f.fr.key
    IN  IF f.fr.kind = "raise"
        THEN [bf |-> f.bf, mf |-> f.mf, states |-> sts, net |-> f.net,
              res |-> FetchRunResult(FALSE, 0, <<>>, "Exception", <<>>)]
        ELSE IF f.fr.status_code # 200
        THEN [bf |-> f.bf, mf |-> f.mf, states |-> sts, net |-> f.net,
              res |-> FetchRunResult(FALSE, 0, <<f.fr.status_code>>, "HTTP", <<key>>)]
        ELSE IF f.bf[key].rows = 0
        THEN [bf |-> f.bf, mf |-> f.mf, states |-> sts, net |-> f.net,
              res |-> FetchRunResult(FALSE, 0, <<200>>, "Parsed 0 rows", <<key>>)]
        ELSE LET w == append_ndjson_dedupe(sts, StateRecords(f.bf[key]))
             IN [bf |-> f.bf, mf |-> f.mf, states |-> w.file, net |-> f.net,
                 res |-> FetchRunResult(TRUE, w.n, <<200>>, "OK", <<key>>)]

\* _read_page_size_from_meta(_derive_meta_path(raw_path)) or 0
read_page_size(mf, raw_path) ==
    IF raw_path = <<>> THEN 0
    ELSE IF raw_path[1] \notin DOMAIN mf THEN 0
    ELSE IF ~DictHas(mf[raw_path[1]].params, "page_size") THEN 0
    ELSE int_of_str(DictGet(mf[raw_path[1]].params, "page_size"))

\* _count_lines_rows(raw_path) or 0
count_lines_rows(bf, raw_path) ==
    IF raw_path = <<>> THEN 0
    ELSE IF raw_path[1] \notin DOMAIN bf THEN 0
    ELSE bf[raw_path[1]].rows

-----------------------------------------------------------------------------
(***************************************************************************)
(* bulk_ingest.main for one spectrum: the levels step (ingest_levels) and  *)
(* the lines step (ingest_lines_adaptive).  A behaviour is a series of     *)
(* runs of the process on the same ledger, cache and normalized files.     *)
(***************************************************************************)

\* the configurations a behaviour may run with: --mode lines over [0, 3] in
\* initial bins of width 2 (the second one clipped to 3) with --min-bin 1,
\* the same with --min-bin 0.5 on the cache, or --mode levels
Configs ==
    [mode : {"lines"},
     wav_min : {0},
     wav_max : {3 * Scale},
     initial_bin : {2 * Scale},
     min_bin : {Scale},
     max_retries : 0..MaxRetries,
     max_splits : 0..MaxSplits,
     force : BOOLEAN,
     resume : BOOLEAN]
    \cup
    [mode : {"lines"},
     wav_min : {0},
     wav_max : {3 * Scale},
     initial_bin : {2 * Scale},
     min_bin : {Scale \div 2},
     max_retries : {MaxRetries},
     max_splits : 0..MaxSplits,
     force : {FALSE},
     resume : {TRUE}]
    \cup
    [mode : {"lines"},
     wav_min : {0},
     wav_max : {3 * Scale},
     initial_bin : {2 * Scale},
     min_bin : {3 * (Scale \div 2)},
     max_retries : {0},
     max_splits : 1..MaxSplits,
     force : {FALSE},
     resume : {TRUE}]
    \cup
    [mode : {"levels"},
     wav_min : {0},
     wav_max : {3 * Scale},
     initial_bin : {2 * Scale},
     min_bin : {Scale},
     max_retries : 0..MaxRetries,
     max_splits : {0},
     force : BOOLEAN,
     resume : BOOLEAN]

NoRet == [levels |-> <<>>, lines |-> <<>>]

\* what is observed of one run.  accepted and aborted span the runs.
NewHist(prev, accepted, aborted) ==
    [fetches |-> 0,           \* pipeline calls of the run
     failures |-> 0,          \* those that did not return ok
     net |-> 0,               \* those that made a network request
     sleeps |-> <<>>,         \* sleeps of the lines loop since its last pipeline call
     tries |-> <<>>,          \* results of the attempts of the unit in progress
     leaves |-> {},           \* bins processed and not split
     skipped |-> {},          \* bins skipped as already done
     fetched |-> {},          \* bins the pipeline was called for
     ckpt0 |-> Len(ckpt),     \* length of the ledger when the run started
     trans0 |-> transitions,  \* the normalized files when the run started
     states0 |-> states,
     prev |-> prev,           \* how the previous run ended
     accepted |-> accepted,   \* bins logged ok and not split, in any run
     aborted |-> aborted]     \* an earlier run failed or crashed

BiIdle ==
    /\ cfg = <<>>
    /\ ckpt = <<>>
    /\ transitions = <<>>
    /\ states = <<>>
    /\ done_levels = {}
    /\ done_bins = {}
    /\ queue = <<>>
    /\ splits_used = 0
    /\ total_written = 0
    /\ pc = "off"
    /\ cur = <<>>
    /\ attempt = 0
    /\ res = <<>>
    /\ ret = NoRet
    /\ runs = 0
    /\ hist = <<>>

BiInit ==
    /\ cfg \in Configs
    /\ ckpt = <<>>
    /\ transitions = <<>>
    /\ states = <<>>
    /\ done_levels = {}
    /\ done_bins = {}
    /\ queue = <<>>
    /\ splits_used = 0
    /\ total_written = 0
    /\ pc = "idle"
    /\ cur = <<>>
    /\ attempt = 0
    /\ res = <<>>
    /\ ret = NoRet
    /\ runs = 0
    /\ hist = [fetches |-> 0, failures |-> 0, net |-> 0, sleeps |-> <<>>, tries |-> <<>>, leaves |-> {}, skipped |-> {},
               fetched |-> {}, ckpt0 |-> 0, trans0 |-> <<>>, states0 |-> <<>>,
               prev |-> "none", accepted |-> {}, aborted |-> FALSE]

\* how a run that is over ended
RunEnd ==
    IF pc = "crashed" THEN "crashed"
    ELSE IF ret.levels # <<>> /\ ~ret.levels[1].ok THEN "failed"
    ELSE IF ret.lines # <<>> /\ ~ret.lines[1].ok THEN "failed"
    ELSE "ok"

\* main, lines 396-397: a run starts and loads the completed sets
MainStart ==
    /\ pc \in {"idle", "done", "crashed"}
    /\ runs < MaxRuns
    \* a later run is a resumed run, or a plain re-run of --mode levels or
    \* of a lines configuration that never splits
    /\ runs = 0 \/ cfg.resume \/ cfg.mode = "levels" \/ cfg.max_splits = 0
    /\ runs' = runs + 1
    /\ done_levels' = IF cfg.resume THEN load_levels_checkpoint(ckpt) ELSE {}
    /\ done_bins' = IF cfg.resume THEN load_lines_checkpoint(ckpt) ELSE {}
    /\ pc' = IF cfg.mode \in {"levels", "both"} THEN "levels" ELSE "lines"
    /\ queue' = <<>>
    /\ splits_used' = 0
    /\ total_written' = 0
    /\ cur' = <<>>
    /\ attempt' = 0
    /\ res' = <<>>
    /\ ret' = NoRet
    /\ hist' = NewHist(IF pc = "idle" THEN "none" ELSE RunEnd, hist.accepted,
                       hist.aborted \/ (pc # "idle" /\ RunEnd # "ok"))
    /\ UNCHANGED <<cfg, ckpt, transitions, states, cache_files>>

\* where main goes after the levels step succeeded or was skipped
AfterLevels == IF cfg.mode \in {"lines", "both"} THEN "lines" ELSE "done"

\* main, lines 407-408: the spectrum's levels are already done
LevelsSkip ==
    /\ pc = "levels"
    /\ cfg.resume /\ SPECTRUM \in done_levels
    /\ pc' = AfterLevels
    /\ UNCHANGED <<cfg, ckpt, transitions, states, done_levels, done_bins, queue,
                   splits_used, total_written, cur, attempt, res, ret, runs, hist,
                   cache_files>>

\* main, lines 409-410: ingest_levels is called
LevelsBegin ==
    /\ pc = "levels"
    /\ ~(cfg.resume /\ SPECTRUM \in done_levels)
    /\ pc' = "levels_try"
    /\ attempt' = 0
    /\ hist' = [hist EXCEPT !.tries = <<>>]
    /\ UNCHANGED <<cfg, ckpt, transitions, states, done_levels, done_bins, queue,
                   splits_used, total_written, cur, res, ret, runs, cache_files>>

\* ingest_levels, lines 156-194: one iteration of the retry loop
LevelsTry ==
    /\ pc = "levels_try"
    /\ \E outcome \in LevelsOutcomes :
        \E r \in {run_levels(body_files, meta_files, states, cfg.force, outcome)} :
        /\ body_files' = r.bf
        /\ meta_files' = r.mf
        /\ states' = r.states
        /\ res' = r.res
        /\ hist' = [hist EXCEPT !.fetches = @ + 1, !.tries = Append(@, r.res),
                                !.failures = IF r.res.ok THEN @ ELSE @ + 1,
                                !.net = IF r.net THEN @ + 1 ELSE @]
        /\ IF r.res.ok
           THEN /\ ckpt' = append_checkpoint(ckpt, LevelsEvent(TRUE, r.res.written,
                                        r.res.status_code, r.res.raw_path))
                /\ ret' = [ret EXCEPT !.levels =
                              <<[ok |-> TRUE, n |-> r.res.written, msg |-> "OK"]>>]
                /\ done_levels' = done_levels \cup {SPECTRUM}
                /\ pc' = AfterLevels
                /\ UNCHANGED attempt
           ELSE /\ ckpt' = append_checkpoint(ckpt, LevelsEvent(FALSE, 0,
                                        r.res.status_code, r.res.raw_path))
                /\ UNCHANGED done_levels
                /\ IF should_retry(r.res.status_code) /\ attempt < cfg.max_retries
                   THEN /\ attempt' = attempt + 1
                        /\ UNCHANGED <<pc, ret>>
                   ELSE /\ ret' = [ret EXCEPT !.levels =
                              <<[ok |-> FALSE, n |-> 0, msg |-> r.res.message]>>]
                        /\ pc' = "done"
                        /\ UNCHANGED attempt
    /\ UNCHANGED <<cfg, transitions, done_bins, queue, splits_used, total_written,
                   cur, runs>>

\* ingest_lines_adaptive, lines 201-204
LinesStart ==
    /\ pc = "lines"
    /\ total_written' = 0
    /\ splits_used' = 0
    /\ queue' = make_bins(cfg.wav_min, cfg.wav_max, cfg.initial_bin)
    /\ pc' = "pop"
    /\ UNCHANGED <<cfg, ckpt, transitions, states, done_levels, done_bins, cur,
                   attempt, res, ret, runs, hist, cache_files>>

\* line 214: `cfg.resume and key in done_bins`, never true
SkipNever(resume, key, done) == FALSE

\* line 214: `cfg.resume and key in done_bins`
SkipBin(resume, key, done) == resume /\ key \in done

\* lines 206-216: a bin is popped and skipped as already completed
PopSkip ==
    /\ pc = "pop"
    /\ queue # <<>>
    /\ SkipBin(cfg.resume, BinKey(Head(queue)[1], Head(queue)[2]), done_bins)
    /\ queue' = Tail(queue)
    /\ cur' = Head(queue)
    /\ hist' = [hist EXCEPT !.skipped = @ \cup {Head(queue)}]
    /\ UNCHANGED <<cfg, ckpt, transitions, states, done_levels, done_bins,
                   splits_used, total_written, pc, attempt, res, ret, runs,
                   cache_files>>

\* lines 206-223: a bin is popped and its retry loop starts
PopBegin ==
    /\ pc = "pop"
    /\ queue # <<>>
    /\ ~SkipBin(cfg.resume, BinKey(Head(queue)[1], Head(queue)[2]), done_bins)
    /\ queue' = Tail(queue)
    /\ cur' = Head(queue)
    /\ attempt' = 0
    /\ pc' = "try"
    /\ hist' = [hist EXCEPT !.tries = <<>>]
    /\ UNCHANGED <<cfg, ckpt, transitions, states, done_levels, done_bins,
                   splits_used, total_written, res, ret, runs, cache_files>>

\* lines 225-248: one iteration of the retry loop of the bin
LinesTry ==
    /\ pc = "try"
    /\ \E outcome \in LinesOutcomes :
        \E r \in {run_lines(body_files, meta_files, transitions, cur[1], cur[2],
                             cfg.force, outcome)} :
        /\ body_files' = r.bf
        /\ meta_files' = r.mf
        /\ transitions' = r.trans
        /\ res' = r.res
        /\ hist' = [hist EXCEPT !.fetches = @ + 1, !.tries = Append(@, r.res),
                                !.failures = IF r.res.ok THEN @ ELSE @ + 1,
                                !.net = IF r.net THEN @ + 1 ELSE @,
                                !.sleeps =
                                    IF /\ ~r.res.ok
                                       /\ should_retry(r.res.status_code)
                                       /\ attempt < cfg.max_retries
                                    THEN backoff_sleep(<<>>) ELSE <<>>,
                                !.fetched = @ \cup {cur}]
        /\ IF r.res.ok
           THEN pc' = "bin_ok" /\ UNCHANGED attempt
           ELSE IF should_retry(r.res.status_code) /\ attempt < cfg.max_retries
                THEN attempt' = attempt + 1 /\ UNCHANGED pc
                ELSE pc' = "bin_failed" /\ UNCHANGED attempt
    /\ UNCHANGED <<cfg, ckpt, states, done_levels, done_bins, queue, splits_used,
                   total_written, cur, ret, runs>>

\* a failure that is logged and then passed over: the loop goes on
LogFailureContinue ==
    /\ pc = "bin_failed"
    /\ ckpt' = append_checkpoint(ckpt, LinesEvent(FALSE, cur[1], cur[2], 0, 0, 0,
                                                  res.status_code, res.raw_path))
    /\ pc' = "pop"
    /\ UNCHANGED <<cfg, transitions, states, done_levels, done_bins, queue,
                   splits_used, total_written, cur, attempt, res, ret, runs, hist,
                   cache_files>>

\* lines 250-272: the bin failed; log it and return failure
LogFailure ==
    /\ pc = "bin_failed"
    /\ ckpt' = append_checkpoint(ckpt, LinesEvent(FALSE, cur[1], cur[2], 0, 0, 0,
                                       res.status_code, res.raw_path))
    /\ ret' = [ret EXCEPT !.lines =
                  <<[ok |-> FALSE, n |-> total_written, msg |-> "Lines failed"]>>]
    /\ pc' = "done"
    /\ UNCHANGED <<cfg, transitions, states, done_levels, done_bins, queue,
                   splits_used, total_written, cur, attempt, res, runs, hist,
                   cache_files>>

\* lines 274-325: the bin succeeded; log it, mark it done, split it if it
\* looks truncated and may be split
FinishBin ==
    /\ pc = "bin_ok"
    /\ LET lo == cur[1]
           hi == cur[2]
           page_size == read_page_size(meta_files, res.raw_path)
           parsed_rows == count_lines_rows(body_files, res.raw_path)
           width == hi - lo
           truncated == Truncated(parsed_rows, page_size)
           split == truncated /\ MaySplit(width, cfg.min_bin, splits_used, cfg.max_splits)
           leaf == [lo |-> lo, hi |-> hi, truncated |-> truncated, used |-> splits_used]
       IN /\ total_written' = total_written + res.written
          /\ ckpt' = append_checkpoint(ckpt, LinesEvent(TRUE, lo, hi, res.written, parsed_rows,
                                             page_size, res.status_code, res.raw_path))
          /\ done_bins' = done_bins \cup {BinKey(lo, hi)}
          /\ splits_used' = IF split THEN splits_used + 1 ELSE splits_used
          /\ queue' = IF split THEN SplitBin(lo, hi) \o queue ELSE queue
          /\ hist' = IF split THEN [hist EXCEPT !.sleeps = polite_sleep(@)]
                     ELSE [hist EXCEPT !.leaves = @ \cup {leaf},
                                       !.accepted = @ \cup {leaf},
                                       !.sleeps = polite_sleep(@)]
    /\ pc' = "pop"
    /\ UNCHANGED <<cfg, transitions, states, done_levels, cur, attempt, res, ret,
                   runs, cache_files>>

\* lines 206, 327: the queue is empty; return (True, total_written, "OK")
ReturnOk ==
    /\ pc = "pop"
    /\ queue = <<>>
    /\ ret' = [ret EXCEPT !.lines =
                  <<[ok |-> TRUE, n |-> total_written, msg |-> "OK"]>>]
    /\ pc' = "done"
    /\ UNCHANGED <<cfg, ckpt, transitions, states, done_levels, done_bins, queue,
                   splits_used, total_written, cur, attempt, res, runs, hist,
                   cache_files>>

\* the process is killed in the middle of a run: its memory is gone, the
\* ledger, the cache and the normalized files stay as they are
Crash ==
    /\ pc \in {"levels", "levels_try", "lines", "pop", "try", "bin_failed", "bin_ok"}
    /\ pc' = "crashed"
    /\ done_levels' = {}
    /\ done_bins' = {}
    /\ queue' = <<>>
    /\ splits_used' = 0
    /\ total_written' = 0
    /\ cur' = <<>>
    /\ attempt' = 0
    /\ res' = <<>>
    /\ ret' = NoRet
    /\ hist' = NewHist(hist.prev, hist.accepted, hist.aborted)
    /\ UNCHANGED <<cfg, ckpt, transitions, states, runs, cache_files>>

\* the steps the running process takes by itself
BiStep ==
    \/ LevelsSkip
    \/ LevelsBegin
    \/ LevelsTry
    \/ LinesStart
    \/ PopSkip
    \/ PopBegin
    \/ LinesTry
    \/ LogFailure
    \/ FinishBin
    \/ ReturnOk

-----------------------------------------------------------------------------
(***************************************************************************)
(* refs.ndjson: the pipelines append reference records to it with          *)
(* append_ndjson_dedupe, enrich_refs.main reads it, fills in the records   *)
(* and writes it back.                                                     *)
(***************************************************************************)

MaxRefOps == 3      \* operations on refs.ndjson per behaviour

\* ref keys: one whose code has the form letters+digits, one whose has not
RefKeys == {"L:L1", "T:x"}

\* reconstruct_asbib_url(ref_key): None unless the key and its code match
\* REF_KEY_RE and CODE_RE
reconstruct_asbib_url(rk) == IF rk = "L:L1" THEN <<"asbib?db_id=1">> ELSE <<>>

\* the ref records fetch_lines.run emits: no citation, no doi, the url taken
\* from the page or reconstructed, or None
RefInputs ==
    {[id |-> <<k>>,
      val |-> [citation |-> <<>>, doi |-> <<>>, url |-> u, notes |-> <<"ASD Ref">>]] :
        k \in RefKeys, u \in {<<>>, <<"asbib?db_id=1">>}}

\* an ASBib page as _extract_citation_and_doi reads it: with or without a
\* citation text, and no DOI
RefPages == {EmptyTable, [rows |-> 1, recs |-> <<"cite">>]}

\* what the network does with the request for one page
EnrichOutcomes ==
    {RaiseOutcome}
    \cup {[kind |-> "resp", status_code |-> sc, content |-> pg] :
            sc \in {200, 404}, pg \in RefPages}

\* enrich_one run with --max-retries 0: one fetch_cached call with params {}
enrich_one(bf, mf, url, force, outcome) ==
    LET f == fetch_cached(bf, mf, url, <<>>, force, outcome) IN
    IF f.fr.kind = "raise"
    THEN [bf |-> f.bf, mf |-> f.mf, raised |-> TRUE, ok |-> FALSE, citation |-> <<>>]
    ELSE IF f.fr.status_code # 200
    THEN [bf |-> f.bf, mf |-> f.mf, raised |-> FALSE, ok |-> FALSE, citation |-> <<>>]
    ELSE [bf |-> f.bf, mf |-> f.mf, raised |-> FALSE, ok |-> TRUE,
          citation |-> f.bf[f.fr.key].recs]

\* main, lines 173-181: a record without url gets the reconstructed one
FillUrl(r) ==
    IF r.val.url # <<>> \/ r.id = <<>> THEN r
    ELSE [r EXCEPT !.val.url = reconstruct_asbib_url(r.id[1])]

\* main, lines 182-187: the records to enrich
InTodo(r) == r.val.citation = <<>> /\ r.val.url # <<>>

\* main, lines 195-212: the records of todo are fetched and updated in place
\* one after the other; an exception of the fetch leaves main
RECURSIVE EnrichLoop(_, _, _, _, _, _)
EnrichLoop(recs, i, bf, mf, force, outs) ==
    IF i > Len(recs)
    THEN [recs |-> recs, bf |-> bf, mf |-> mf, raised |-> FALSE]
    ELSE IF ~InTodo(recs[i])
    THEN EnrichLoop(recs, i + 1, bf, mf, force, outs)
    ELSE LET e == enrich_one(bf, mf, recs[i].val.url[1], force, outs[i]) IN
         IF e.raised
         THEN [recs |-> recs, bf |-> e.bf, mf |-> e.mf, raised |-> TRUE]
         ELSE EnrichLoop(
                [recs EXCEPT ![i] =
                    IF e.ok THEN [@ EXCEPT !.val.citation = e.citation]
                    ELSE [@ EXCEPT !.val.notes = Append(@, "enrich_error")]],
                i + 1, e.bf, e.mf, force, outs)

\* _write_ndjson: the file is replaced by the given records
write_ndjson(file, recs) == recs

RfIdle ==
    /\ refs = <<>>
    /\ refs_before = <<>>
    /\ rf_op = "none"
    /\ rf_ops = 0

\* fetch_lines.run, line 498: append_ndjson_dedupe(refs_path, ref_records, "ref_id")
RefsAppend ==
    /\ rf_ops < MaxRefOps
    /\ \E recs \in SeqsUpTo(RefInputs, MaxRecs) :
          refs' = append_ndjson_dedupe(refs, recs).file
    /\ refs_before' = refs
    /\ rf_op' = "append"
    /\ rf_ops' = rf_ops + 1
    /\ UNCHANGED cache_files

\* enrich_refs.main, lines 153-215
EnrichRefs ==
    /\ rf_ops < MaxRefOps
    /\ refs # <<>>
    /\ \E force \in BOOLEAN, outs \in [DOMAIN refs -> EnrichOutcomes] :
          LET filled == [i \in DOMAIN refs |-> FillUrl(refs[i])]
              e == EnrichLoop(filled, 1, body_files, meta_files, force, outs)
          IN  /\ body_files' = e.bf
              /\ meta_files' = e.mf
              /\ refs' = IF e.raised THEN refs ELSE write_ndjson(refs, e.recs)
    /\ refs_before' = refs
    /\ rf_op' = "enrich"
    /\ rf_ops' = rf_ops + 1

-----------------------------------------------------------------------------
(***************************************************************************)
(* Pure functions, applied once to inputs drawn from bounded sets          *)
(***************************************************************************)

PfIdle ==
    /\ pf_op = "none"
    /\ pf_in = <<>>
    /\ pf_out = <<>>

MaxParams == 2      \* parameters per request dict

KeyUrls == {"https://svc/x", "https://svc/y"}
KeyNames == {"a", "b", "c"}
\* 1 and "1" have the same string form
KeyValues == {PyInt(1), PyStr("1"), PyInt(2)}

\* the dicts of at most MaxParams parameters, in every insertion order
Dicts ==
    {d \in SeqsUpTo(KeyNames \X KeyValues, MaxParams) :
        \A i, j \in DOMAIN d : i # j => d[i][1] # d[j][1]}

\* stable_request_key applied to two requests
KeyCall ==
    /\ pf_op = "none"
    /\ \E u1, u2 \in KeyUrls, d1, d2 \in Dicts :
          /\ pf_in' = [url1 |-> u1, params1 |-> d1, url2 |-> u2, params2 |-> d2]
          /\ pf_out' = <<stable_request_key(u1, d1), stable_request_key(u2, d2)>>
    /\ pf_op' = "stable_request_key"

\* ---- parse_lines.py: fixed-width slicing ----

MaxLineLen == 4     \* characters per line

\* a line is a sequence of characters: the delimiter, whitespace, a letter
Chars == {"|", " ", "x"}
Lines == SeqsUpTo(Chars, MaxLineLen)

\* str.strip()
RECURSIVE lstrip(_)
lstrip(ln) == IF ln # <<>> /\ Head(ln) = " " THEN lstrip(Tail(ln)) ELSE ln
RECURSIVE rstrip(_)
rstrip(ln) ==
    IF ln # <<>> /\ ln[Len(ln)] = " " THEN rstrip(SubSeq(ln, 1, Len(ln) - 1)) ELSE ln
strip(ln) == rstrip(lstrip(ln))

\* str.split("|"): the pieces between the delimiters of the line itself
RECURSIVE SplitOnPipes(_, _)
SplitOnPipes(ln, piece) ==
    IF ln = <<>> THEN <<strip(piece)>>
    ELSE IF Head(ln) = "|" THEN <<strip(piece)>> \o SplitOnPipes(Tail(ln), <<>>)
    ELSE SplitOnPipes(Tail(ln), Append(piece, Head(ln)))

\* a split that follows the delimiters of the line, not those of the template
SplitOnOwnPipes(line, pipe_pos) == SplitOnPipes(line, <<>>)

\* _pipe_positions: the positions of "|" in ascending order; a position is
\* the index in the sequence, one more than Python's index
pipe_positions(template_line) ==
    LET F[i \in 0..Len(template_line)] ==
            IF i = 0 THEN <<>>
            ELSE IF template_line[i] = "|" THEN Append(F[i - 1], i)
            ELSE F[i - 1]
    IN F[Len(template_line)]

\* line padded with spaces to need_len
PadTo(line, need_len) ==
    IF Len(line) < need_len
    THEN line \o [i \in 1..(need_len - Len(line)) |-> " "]
    ELSE line

\* _split_fixed_width: line[s:e].strip() for s, e in zip(starts, ends) with
\* starts = [0] + [p + 1 for p in pipe_pos], ends = pipe_pos + [len(line)];
\* in positions counted from 1 the slice [s:e] is s + 1 .. e
split_fixed_width(line, pipe_pos) ==
    IF pipe_pos = <<>> THEN <<strip(line)>>
    ELSE LET ln == PadTo(line, pipe_pos[Len(pipe_pos)])
             starts == <<1>> \o [i \in DOMAIN pipe_pos |-> pipe_pos[i] + 1]
             ends == [i \in DOMAIN pipe_pos |-> pipe_pos[i] - 1] \o <<Len(ln)>>
         IN [i \in 1..Min(Len(starts), Len(ends)) |->
                strip(SubSeq(ln, starts[i], ends[i]))]

\* _split_fixed_width applied to a line with the positions of a template
SplitCall ==
    /\ pf_op = "none"
    /\ \E template \in Lines, line \in Lines :
          /\ pf_in' = [template |-> template, line |-> line]
          /\ pf_out' = split_fixed_width(line, pipe_positions(template))
    /\ pf_op' = "split_fixed_width"

\* ---- parse_lines.py: parse_lines_response, both versions ----

MaxDocLines == 4    \* lines of a <pre> block

\* a run of nn dashes
DashRun(nn) == [i \in 1..nn |-> "-"]

\* the lines a <pre> block is made of: separators (more than 10 dashes, with
\* or without delimiters), a run of exactly 10 dashes with and without a
\* delimiter, rows, a row of blank cells, noise without a delimiter, a blank
\* line
DocLines ==
    { DashRun(11),
      <<"|">> \o DashRun(11) \o <<"|">>,
      DashRun(10),
      DashRun(10) \o <<"|">>,
      <<"x", "|", "x">>,
      <<"x", "|", "x", "|", "x">>,
      <<" ", "|", " ">>,
      <<"x">>,
      <<>> }
Docs == SeqsUpTo(DocLines, MaxDocLines)

HasPipe(ln) == \E i \in DOMAIN ln : ln[i] = "|"
CountOf(ln, ch) == Cardinality({i \in DOMAIN ln : ln[i] = ch})

\* _is_separator: not blank, more than 10 dashes, only "-", "|", "+", " "
is_separator(ln) ==
    LET t == strip(ln) IN
    /\ t # <<>>
    /\ CountOf(t, "-") > 10
    /\ \A i \in DOMAIN t : t[i] \in {"-", "|", "+", " "}

\* [i for i, ln in enumerate(lines) if ...]: the indices of the set idxs in
\* ascending order
Ascending(idxs) ==
    LET PlaceOf(i) == Cardinality({j \in idxs : j < i}) + 1 IN
    [place \in 1..Cardinality(idxs) |-> CHOOSE i \in idxs : PlaceOf(i) = place]

\* the indices of lo..hi whose line is a separator, is not blank, has a "|"
SepIndices(lines, lo, hi) == Ascending({i \in lo..hi : is_separator(lines[i])})
NotBlankIndices(lines, lo, hi) == Ascending({i \in lo..hi : strip(lines[i]) # <<>>})
PipeIndices(lines, lo, hi) == Ascending({i \in lo..hi : HasPipe(lines[i])})

\* max(candidates, key=count of "|"): the first line with the most delimiters
FirstMaxPipes(lines, idxs) ==
    CHOOSE i \in {idxs[j] : j \in DOMAIN idxs} :
        \A j \in DOMAIN idxs :
            /\ CountOf(lines[idxs[j]], "|") <= CountOf(lines[i], "|")
            /\ CountOf(lines[idxs[j]], "|") = CountOf(lines[i], "|") => i <= idxs[j]

\* cells cut or padded to ncols
FitCells(cells, ncols) ==
    [i \in 1..ncols |-> IF i <= Len(cells) THEN cells[i] ELSE <<>>]

\* pd.DataFrame(): the empty table
EmptyFrame == [kind |-> "frame", ncols |-> 0, rows |-> <<>>]

\* pd.DataFrame(rows, columns=headers): raises when a row does not have one
\* cell per column; a row is kept with the index of the line it was read from
DataFrame(rows, ncols) ==
    IF \E i \in DOMAIN rows : Len(rows[i].cells) # ncols
    THEN [kind |-> "raise", ncols |-> ncols, rows |-> <<>>]
    ELSE [kind |-> "frame", ncols |-> ncols, rows |-> rows]

\* the loop over data_lines, the lines lo..hi; split[i] gives the cells of
\* line i; keep is the set of the lines that pass the test to be read as a row
ReadRows(split, keep, lo, hi, ncols) ==
    LET F[i \in (lo - 1)..hi] ==
            IF i < lo THEN <<>>
            ELSE LET cells == FitCells(split[i], ncols)
                 IN IF i \notin keep THEN F[i - 1]
                    ELSE IF \A c \in DOMAIN cells : strip(cells[c]) = <<>> THEN F[i - 1]
                    ELSE Append(F[i - 1], [src |-> i, cells |-> cells])
    IN IF hi < lo THEN <<>> ELSE F[hi]

\* a data loop that also reads separator lines and lines without a delimiter
ParseKeepAll(lines) ==
    LET sep_idxs == SepIndices(lines, 1, Len(lines))
        split == [i \in DOMAIN lines |-> SplitOnPipes(lines[i], <<>>)]
        keep == DOMAIN lines
    IN  IF Len(sep_idxs) < 2 THEN EmptyFrame
        ELSE DataFrame(ReadRows(split, keep, sep_idxs[2] + 1, Len(lines), 2), 2)

\* parse_lines_response of spectra_db/scrapers/nist_asd/parse_lines.py
\* (lines 173-233); the header names are left out, ncols is their number
parse_lines_response(lines) ==
    LET sep_idxs == SepIndices(lines, 1, Len(lines)) IN
    IF Len(sep_idxs) < 2 THEN EmptyFrame
    ELSE
    LET s0 == sep_idxs[1]
        s1 == sep_idxs[2]
        header_idxs == NotBlankIndices(lines, s0 + 1, s1 - 1)
        last == IF Len(sep_idxs) >= 3 THEN sep_idxs[Len(sep_idxs)] - 1 ELSE Len(lines)
        data_pipes == PipeIndices(lines, s1 + 1, last)
        hdr_pipes == PipeIndices(lines, s0 + 1, s1 - 1)
    IN  IF data_pipes = <<>> /\ hdr_pipes = <<>> THEN EmptyFrame
        ELSE
        LET template == IF data_pipes # <<>> THEN lines[FirstMaxPipes(lines, data_pipes)]
                        ELSE lines[FirstMaxPipes(lines, hdr_pipes)]
            pipe_pos == pipe_positions(template)
            ncols == IF header_idxs = <<>> THEN 0 ELSE Len(pipe_pos) + 1
            split == [i \in DOMAIN lines |-> split_fixed_width(lines[i], pipe_pos)]
            keep == {i \in DOMAIN lines : ~is_separator(lines[i]) /\ HasPipe(lines[i])}
        IN  IF pipe_pos = <<>> THEN EmptyFrame
            ELSE DataFrame(ReadRows(split, keep, s1 + 1, last, ncols), ncols)

\* the largest number of pieces of the header lines
MaxPieces(lines, idxs) ==
    LET cnt(i) == CountOf(lines[idxs[i]], "|") + 1 IN
    cnt(CHOOSE i \in DOMAIN idxs : \A j \in DOMAIN idxs : cnt(j) <= cnt(i))

\* parse_lines_response of tools/scrapers/nist_asd/parse_lines.py (32-95)
tools_parse_lines_response(lines) ==
    LET sep_idxs == SepIndices(lines, 1, Len(lines)) IN
    IF Len(sep_idxs) < 2 THEN EmptyFrame
    ELSE
    LET s0 == sep_idxs[1]
        s1 == sep_idxs[2]
        header_idxs == NotBlankIndices(lines, s0 + 1, s1 - 1)
    IN  IF header_idxs = <<>> THEN EmptyFrame
        ELSE
        LET ncols == MaxPieces(lines, header_idxs)
            s2 == IF Len(sep_idxs) > 2 THEN sep_idxs[3] - 1 ELSE Len(lines)
            split == [i \in DOMAIN lines |-> SplitOnPipes(lines[i], <<>>)]
            keep == {i \in DOMAIN lines : HasPipe(lines[i]) /\ ~is_separator(lines[i])}
        IN  DataFrame(ReadRows(split, keep, s1 + 1, s2, ncols), ncols)

\* both parsers applied to the lines of a <pre> block
ParseCall ==
    /\ pf_op = "none"
    /\ \E doc \in Docs :
          /\ pf_in' = doc
          /\ pf_out' = [core |-> parse_lines_response(doc),
                        tools |-> tools_parse_lines_response(doc)]
    /\ pf_op' = "parse_lines_response"

\* ---- fetch_lines.py, fetch_levels.py: split_ref_codes ----

MaxCellLen == 5     \* characters of a reference cell

\* the characters of a cell: letters in both cases, the comma, whitespace
CellChars == {"n", "a", "N", ",", " "}
\* a cell is <<>> for None and <<s>> for the string s
Cells == {<<>>} \cup {<<c>> : c \in SeqsUpTo(CellChars, MaxCellLen)}

\* str.lower()
lower(str_) == [i \in DOMAIN str_ |-> IF str_[i] = "N" THEN "n" ELSE str_[i]]

\* _REF_SPLIT_RE.split(s) followed by p.strip(): the pieces between the
\* commas, trimmed (the whitespace the pattern eats around a comma is
\* whitespace strip() removes as well)
RECURSIVE SplitOnCommas(_, _)
SplitOnCommas(str_, piece) ==
    IF str_ = <<>> THEN <<strip(piece)>>
    ELSE IF Head(str_) = "," THEN <<strip(piece)>> \o SplitOnCommas(Tail(str_), <<>>)
    ELSE SplitOnCommas(Tail(str_), Append(piece, Head(str_)))

\* [p for p in parts if p]
RECURSIVE NonEmpty(_)
NonEmpty(parts) ==
    IF parts = <<>> THEN <<>>
    ELSE IF Head(parts) = <<>> THEN NonEmpty(Tail(parts))
    ELSE <<Head(parts)>> \o NonEmpty(Tail(parts))

\* list(dict.fromkeys(parts)): the first occurrence of every item, in order
RECURSIVE FromKeys(_, _)
FromKeys(parts, seen) ==
    IF parts = <<>> THEN <<>>
    ELSE IF Head(parts) \in seen THEN FromKeys(Tail(parts), seen)
    ELSE <<Head(parts)>> \o FromKeys(Tail(parts), seen \cup {Head(parts)})

\* split_ref_codes (fetch_lines.py 79-86, fetch_levels.py 62-76)
split_ref_codes(cell) ==
    IF cell = <<>> THEN <<>>
    ELSE LET s_ == strip(cell[1]) IN
         IF s_ = <<>> \/ lower(s_) = <<"n", "a", "n">> THEN <<>>
         ELSE FromKeys(NonEmpty(SplitOnCommas(s_, <<>>)), {})

\* ",".join(codes)
RECURSIVE JoinCommas(_)
JoinCommas(codes) ==
    IF codes = <<>> THEN <<>>
    ELSE IF Len(codes) = 1 THEN codes[1]
    ELSE codes[1] \o <<",">> \o JoinCommas(Tail(codes))

\* split_ref_codes applied to a cell, then to the comma-joined result
RefCodesCall ==
    /\ pf_op = "none"
    /\ \E cell \in Cells :
          LET codes == split_ref_codes(cell) IN
          /\ pf_in' = cell
          /\ pf_out' = [codes |-> codes,
                        again |-> split_ref_codes(<<JoinCommas(codes)>>)]
    /\ pf_op' = "split_ref_codes"

\* ---- fetch_lines.py: reconstruct_asbib_url(kind, code) ----

MaxCodeLen == 5     \* characters of a reference code

Letters == {"L", "c"}
Digits == {"1", "2"}
CodeChars == Letters \cup Digits \cup {" "}
Codes == SeqsUpTo(CodeChars, MaxCodeLen)
Kinds == {"L", "T"}

\* length of the longest prefix of str_ made of characters of class
RECURSIVE RunLen(_, _)
RunLen(str_, class) ==
    IF str_ # <<>> /\ Head(str_) \in class THEN 1 + RunLen(Tail(str_), class) ELSE 0

Drop(str_, k) == SubSeq(str_, k + 1, Len(str_))

\* CODE_RE.match: ^[A-Za-z]+(?P<db_id>\d+)(?P<comment>[A-Za-z]\d+)?$ ; the
\* letters and the digits are disjoint, so the greedy runs are the only way
\* to match.  <<>> for no match, else <<[db_id, comment]>> with comment <<>>
\* when the group did not take part
CODE_RE_match(code) ==
    LET a == RunLen(code, Letters)
        r1 == Drop(code, a)
        b == RunLen(r1, Digits)
        r2 == Drop(r1, b)
    IN  IF a = 0 \/ b = 0 THEN <<>>
        ELSE IF r2 = <<>> THEN <<[db_id |-> SubSeq(r1, 1, b), comment |-> <<>>]>>
        ELSE IF /\ Head(r2) \in Letters
                /\ Len(r2) >= 2
                /\ RunLen(Tail(r2), Digits) = Len(r2) - 1
             THEN <<[db_id |-> SubSeq(r1, 1, b), comment |-> r2]>>
        ELSE <<>>

ASBIB_BASE == "https://physics.nist.gov/cgi-bin/ASBib1/get_ASBib_ref.cgi"

\* a URL that carries comment_code also when the code has no comment
ReconstructCommentAlways(kind, code) ==
    LET m == CODE_RE_match(strip(code)) IN
    IF m = <<>> THEN <<>>
    ELSE <<[base |-> ASBIB_BASE,
            query |-> << <<"db", <<"e", "l">> >>, <<"db_id", m[1].db_id>>,
                         <<"type", <<kind>> >>,
                         <<"comment_code", m[1].comment>> >>]>>

\* reconstruct_asbib_url(kind, code) of fetch_lines.py (29-52), called
\* without element and spectr_charge: <<>> for None, else the URL as its
\* base and the (name, value) pairs urlencode writes as name=value
fetch_lines_reconstruct_asbib_url(kind, code) ==
    LET m == CODE_RE_match(strip(code)) IN
    IF m = <<>> THEN <<>>
    ELSE LET params == << <<"db", <<"e", "l">> >>, <<"db_id", m[1].db_id>>,
                          <<"type", <<kind>> >> >>
         IN <<[base |-> ASBIB_BASE,
               query |-> IF m[1].comment # <<>>
                         THEN Append(params, <<"comment_code", m[1].comment>>)
                         ELSE params]>>

\* reconstruct_asbib_url applied to a kind and a code
AsbibCall ==
    /\ pf_op = "none"
    /\ \E kind \in Kinds, code \in Codes :
          /\ pf_in' = [kind |-> kind, code |-> code]
          /\ pf_out' = fetch_lines_reconstruct_asbib_url(kind, code)
    /\ pf_op' = "reconstruct_asbib_url"

\* ---- fetch_lines.py: the transition records of the rows of a table ----

\* A row of the parsed lines table, as fetch_lines.run reads it: a float cell
\* is <<>> for None or <<v>>, the type cell too; a string is the sequence of
\* its characters; the reference cells are given as the codes split_ref_codes
\* finds in them; lower stands for the lower and upper level columns, aki for
\* Aki and the other payload columns.
LineRows ==
    [obs_wl : {<<>>, <<5>>},
     ritz_wl : {<<>>, <<5>>},
     obs_unc : {<<>>, <<1>>},
     ritz_unc : {<<>>},
     ttype : {<<>>, << <<"M", "1">> >>},
     line_codes : {<<>>, << <<"L", "1">> >>, << <<"L", "1">>, <<"L", "2">> >>},
     tp_codes : {<<>>, << <<"T", "1">> >>},
     lower : {"1s", "2p"},
     aki : {<<1>>}]

ISO_ID == "H-1"

\* str(v) of an optional float: "None", or the repr, which is one-to-one
str_opt(v) == IF v = <<>> THEN <<"None">> ELSE <<"repr", v[1]>>

\* x or "" of an optional string
or_empty(x) == IF x = <<>> THEN <<>> ELSE x[1]

\* make_ref_key(kind, code)
make_ref_key(kind, code) == <<kind, ":">> \o code

\* lines 320-322: wav = obs_wl if obs_wl is not None else ritz_wl
wav_of(row) == IF row.obs_wl # <<>> THEN row.obs_wl ELSE row.ritz_wl

\* line 328: chosen_unc = obs_unc if (obs_wl is not None) else ritz_unc
chosen_unc_of(row) == IF row.obs_wl # <<>> THEN row.obs_unc ELSE row.ritz_unc

\* lines 342-346: ref_id = line_ref_id or tp_ref_id, the first key of each
ref_id_of(row) ==
    IF row.line_codes # <<>> THEN <<make_ref_key("L", row.line_codes[1])>>
    ELSE IF row.tp_codes # <<>> THEN <<make_ref_key("T", row.tp_codes[1])>>
    ELSE <<>>

\* the arguments of make_id in make_transition_record, as fetch_lines.run
\* gives them: dedupe_key is not passed and is None
TransIdParts(row) ==
    <<ISO_ID, str_opt(wav_of(row)), LINE_UNIT, str_opt(chosen_unc_of(row)),
      or_empty(row.ttype), or_empty(ref_id_of(row)), or_empty(<<>>)>>

\* lines 483-496: the record of a row; intensity_json carries every field of
\* the row
TransRecordOfRow(row, lo, hi) ==
    [make_transition_record(TransIdParts(row), lo, hi) EXCEPT !.val.row = row]

\* lines 319-323, 483-499: the rows without a wavelength are passed over, the
\* records of the others are appended to the file
RECURSIVE RowRecords(_, _, _)
RowRecords(rows, lo, hi) ==
    IF rows = <<>> THEN <<>>
    ELSE IF wav_of(Head(rows)) = <<>> THEN RowRecords(Tail(rows), lo, hi)
    ELSE <<TransRecordOfRow(Head(rows), lo, hi)>> \o RowRecords(Tail(rows), lo, hi)

\* fetch_lines.run on a table of two rows and an empty transitions file
RowsCall ==
    /\ pf_op = "none"
    /\ \E r1, r2 \in LineRows :
          /\ pf_in' = <<r1, r2>>
          /\ pf_out' = append_ndjson_dedupe(<<>>, RowRecords(<<r1, r2>>, 0, Scale)).file
    /\ pf_op' = "fetch_lines_rows"

\* ---- bulk_ingest.py _sleep_backoff, enrich_refs.py _backoff_sleep ----

MaxAttempt == 1025  \* attempts of one retry loop: attempt ranges over 0..MaxAttempt

\* Waits are in half seconds: the integer x stands for the float x / 2.
\* --backoff-base 0, 0.5, 2 (the default), 60 and 100
BackoffBases == {0, 1, 4, 120, 200}
\* 60.0 seconds
MAX_WAIT == 120

\* sys.float_info.max_exp: the int 2**a converts to a float exactly when
\* a < 1024; beyond that `base * (2**attempt)` raises OverflowError
FLOAT_MAX_EXP == 1024

\* min(x * 2**k, cap) for x >= 0, by doubling: once x has reached cap the
\* minimum is cap
RECURSIVE MinTimesPow2(_, _, _)
MinTimesPow2(x, k, cap) ==
    IF x = 0 THEN 0
    ELSE IF x >= cap THEN cap
    ELSE IF k = 0 THEN x
    ELSE MinTimesPow2(2 * x, k - 1, cap)

\* _sleep_backoff(attempt, base) and _backoff_sleep(attempt, base_s):
\* t = min(base * (2**attempt), 60.0); time.sleep(t).  The result is the sleep
\* made, or the exception raised.
sleep_backoff(att, base) ==
    IF att >= FLOAT_MAX_EXP
    THEN [kind |-> "raise", t |-> 0]
    ELSE [kind |-> "sleep", t |-> MinTimesPow2(base, att, MAX_WAIT)]

\* _sleep_backoff on attempts and bases
BackoffCall ==
    /\ pf_op = "none"
    /\ \E att \in 0..MaxAttempt, base \in BackoffBases :
          /\ pf_in' = [attempt |-> att, base |-> base]
          /\ pf_out' = sleep_backoff(att, base)
    /\ pf_op' = "sleep_backoff"

\* ---- parse_lines.py: _dedupe_headers ----

MaxCols == 3        \* columns of a header

\* str(k) of a column index or an occurrence count below 10
DigitChars == <<"0", "1", "2", "3", "4", "5", "6", "7", "8", "9">>
str_digit(k) == <<DigitChars[k + 1]>>

\* the merged header texts, as sequences of characters: "", "A", "B", "A__2"
\* and "col_1"
HeaderNames ==
    { <<>>, <<"A">>, <<"B">>, <<"A", "_", "_", "2">>, <<"c", "o", "l", "_", "1">> }
HeaderLists == SeqsUpTo(HeaderNames, MaxCols)

\* f"col_{i}" for the 0-based index i
col_name(i) == <<"c", "o", "l", "_">> \o str_digit(i)

\* _dedupe_headers (lines 57-68), the same loop as lines 69-79 of the tools
\* parser: seen maps a base name to the number of times it was met
dedupe_headers(headers) ==
    LET F[i \in 0..Len(headers)] ==
            IF i = 0 THEN [seen |-> <<>>, out |-> <<>>]
            ELSE LET st == F[i - 1]
                     h == headers[i]
                     base == IF h # <<>> THEN h ELSE col_name(i - 1)
                 IN  IF DictHas(st.seen, base)
                     THEN LET cnt == DictGet(st.seen, base) + 1 IN
                          [seen |-> [j \in DOMAIN st.seen |->
                                        IF st.seen[j][1] = base THEN <<base, cnt>>
                                        ELSE st.seen[j]],
                           out |-> Append(st.out, base \o <<"_", "_">> \o str_digit(cnt))]
                     ELSE [seen |-> Append(st.seen, <<base, 1>>),
                           out |-> Append(st.out, base)]
    IN  F[Len(headers)].out

\* _dedupe_headers on lists of merged header texts
DedupeCall ==
    /\ pf_op = "none"
    /\ \E headers \in HeaderLists :
          /\ pf_in' = headers
          /\ pf_out' = dedupe_headers(headers)
    /\ pf_op' = "dedupe_headers"

-----------------------------------------------------------------------------
(***************************************************************************)
(* nist_webbook normalize_cache.run                                        *)
(***************************************************************************)

MaxNcOps == 4       \* cache writes and runs per behaviour

\* the cache keys, in the order sorted(cache_dir.glob("*.meta.json")) lists them
NcKeys == <<"k1", "k2">>

\* A cache entry is what its metadata and body hold: whether the metadata
\* file loads as a non-empty JSON object (a write cut short leaves one that
\* does not), status_code, params.Mask, params.ID (<<>> when missing) and the
\* page; body "missing" is a metadata file whose <key>.body is not in the
\* directory.
WbEntries ==
    { [readable |-> TRUE, status_code |-> 200, mask |-> "1000", id |-> <<"C630080">>, body |-> "table"],
      [readable |-> TRUE, status_code |-> 200, mask |-> "1000", id |-> <<"C630080">>, body |-> "no table"],
      [readable |-> TRUE, status_code |-> 200, mask |-> "1000", id |-> <<"C630080">>, body |-> "broken"],
      [readable |-> TRUE, status_code |-> 200, mask |-> "1000", id |-> <<>>, body |-> "table"],
      [readable |-> TRUE, status_code |-> 404, mask |-> "1000", id |-> <<"C630080">>, body |-> "no table"],
      [readable |-> TRUE, status_code |-> 200, mask |-> "2", id |-> <<"C630080">>, body |-> "table"],
      [readable |-> TRUE, status_code |-> 200, mask |-> "1000", id |-> <<"C630080">>, body |-> "missing"],
      [readable |-> FALSE, status_code |-> 200, mask |-> "1000", id |-> <<"C630080">>, body |-> "table"] }

NO_TABLE_MESSAGE == "No 'Diatomic constants for ...' tables found in HTML."

\* normalize_diatomic_constants.run: a function of the page; it returns ok,
\* returns the no-table message (line 456), or raises
normalize_diatomic(webbook_id, body) ==
    IF body = "table" THEN [kind |-> "ret", ok |-> TRUE, message |-> "ok"]
    ELSE IF body = "no table"
    THEN [kind |-> "ret", ok |-> FALSE, message |-> NO_TABLE_MESSAGE]
    ELSE [kind |-> "raise", ok |-> FALSE, message |-> ""]

\* _is_expected_no_data
is_expected_no_data(message) == message = NO_TABLE_MESSAGE

\* _read_ingest_log_keys: the cache_key of every line that has one
read_ingest_log_keys(log) == ExistingIds(log)

\* the row run() logs for an entry
LogRow(cache_key, entry, normalize_ok, no_data) ==
    [id |-> <<cache_key>>,
     val |-> [webbook_id |-> entry.id, mask |-> entry.mask,
              normalize_ok |-> normalize_ok, no_data |-> no_data]]

\* the counters and files of a run in progress; called lists the keys the
\* normalizer was invoked on, failed the keys whose normalization raised or
\* returned a failure that is not the expected no-table one
NcStart(log) ==
    [already |-> read_ingest_log_keys(log), log |-> log, called |-> <<>>,
     failed |-> {},
     scanned |-> 0, eligible |-> 0, processed |-> 0, skipped_already |-> 0,
     skipped_pair |-> 0,
     skipped_non200 |-> 0, skipped_mask |-> 0, skipped_no_table |-> 0,
     errors |-> 0]

\* one round of the loop with the `cache_key in already` test left out
NcStepNoAlready(cache, cache_key, st0) ==
    LET st == [st0 EXCEPT !.scanned = @ + 1]
        e == cache[cache_key]
        rr == normalize_diatomic(e.id, e.body)
    IN  IF e.body = "missing" THEN [st EXCEPT !.skipped_pair = @ + 1]
        ELSE IF ~e.readable THEN [st EXCEPT !.errors = @ + 1]
        ELSE IF e.status_code # 200 THEN [st EXCEPT !.skipped_non200 = @ + 1]
        ELSE IF e.mask # "1000" THEN [st EXCEPT !.skipped_mask = @ + 1]
        ELSE IF e.id = <<>> THEN [st EXCEPT !.errors = @ + 1]
        ELSE IF rr.kind = "raise"
        THEN [st EXCEPT !.eligible = @ + 1, !.errors = @ + 1,
                        !.called = Append(@, cache_key),
                        !.failed = @ \cup {cache_key}]
        ELSE IF rr.ok
        THEN [st EXCEPT !.eligible = @ + 1, !.processed = @ + 1,
                        !.called = Append(@, cache_key),
                        !.already = @ \cup {cache_key},
                        !.log = append_ndjson_dedupe(@,
                                    <<LogRow(cache_key, e, TRUE, FALSE)>>).file]
        ELSE [st EXCEPT !.eligible = @ + 1, !.skipped_no_table = @ + 1,
                        !.called = Append(@, cache_key),
                        !.already = @ \cup {cache_key},
                        !.log = append_ndjson_dedupe(@,
                                    <<LogRow(cache_key, e, FALSE, TRUE)>>).file]

\* one round of the loop that marks an entry whose normalization failed
\* unexpectedly as ingested
NcStepMarksFailed(cache, cache_key, st0) ==
    LET st == NcStepNoAlready(cache, cache_key, st0) IN
        IF cache_key \in st0.already
        THEN [st0 EXCEPT !.scanned = @ + 1, !.skipped_already = @ + 1]
        ELSE IF cache_key \in st.failed
        THEN [st EXCEPT !.already = @ \cup {cache_key},
                        !.log = append_ndjson_dedupe(@,
                                    <<LogRow(cache_key, cache[cache_key], FALSE, FALSE)>>).file]
        ELSE st

\* lines 113-204: one round of the loop over the metadata files
NcStep(cache, cache_key, st0) ==
    LET st == [st0 EXCEPT !.scanned = @ + 1]
        e == cache[cache_key]
        rr == normalize_diatomic(e.id, e.body)
    IN  IF cache_key \in st.already THEN [st EXCEPT !.skipped_already = @ + 1]
        ELSE IF e.body = "missing" THEN [st EXCEPT !.skipped_pair = @ + 1]
        ELSE IF ~e.readable THEN [st EXCEPT !.errors = @ + 1]
        ELSE IF e.status_code # 200 THEN [st EXCEPT !.skipped_non200 = @ + 1]
        ELSE IF e.mask # "1000" THEN [st EXCEPT !.skipped_mask = @ + 1]
        ELSE IF e.id = <<>> THEN [st EXCEPT !.errors = @ + 1]
        ELSE IF rr.kind = "raise"
        THEN [st EXCEPT !.eligible = @ + 1, !.errors = @ + 1,
                        !.called = Append(@, cache_key),
                        !.failed = @ \cup {cache_key}]
        ELSE IF rr.ok
        THEN [st EXCEPT !.eligible = @ + 1, !.processed = @ + 1,
                        !.called = Append(@, cache_key),
                        !.already = @ \cup {cache_key},
                        !.log = append_ndjson_dedupe(@,
                                    <<LogRow(cache_key, e, TRUE, FALSE)>>).file]
        ELSE IF is_expected_no_data(rr.message)
        THEN [st EXCEPT !.eligible = @ + 1, !.skipped_no_table = @ + 1,
                        !.called = Append(@, cache_key),
                        !.already = @ \cup {cache_key},
                        !.log = append_ndjson_dedupe(@,
                                    <<LogRow(cache_key, e, FALSE, TRUE)>>).file]
        ELSE [st EXCEPT !.eligible = @ + 1, !.errors = @ + 1,
                        !.called = Append(@, cache_key),
                        !.failed = @ \cup {cache_key}]

\* the loop over metas
RECURSIVE NcLoop(_, _, _)
NcLoop(cache, metas, st) ==
    IF metas = <<>> THEN st
    ELSE NcLoop(cache, Tail(metas), NcStep(cache, Head(metas), st))

\* sorted(cache_dir.glob("*.meta.json")): the keys present, in order
Metas(cache) == SelectSeq(NcKeys, LAMBDA k : k \in DOMAIN cache)

\* NormalizeCacheResult
NormalizeCacheResult(st) ==
    [ok |-> st.errors = 0, scanned |-> st.scanned, eligible |-> st.eligible,
     processed |-> st.processed,
     skipped_already_ingested |-> st.skipped_already,
     skipped_incomplete_pair |-> st.skipped_pair,
     skipped_non_200 |-> st.skipped_non200,
     skipped_non_diatomic_mask |-> st.skipped_mask,
     skipped_no_diatomic_table |-> st.skipped_no_table,
     errors |-> st.errors]

NcNoHist == [ops |-> 0, last |-> "none", prev |-> "none",
             log_before |-> <<>>, called |-> <<>>,
             failed |-> {}, prev_failed |-> {}]

NcIdle ==
    /\ wb_cache = <<>>
    /\ ingest_log = <<>>
    /\ nc_res = <<>>
    /\ nc_hist = NcNoHist

\* the cache directory gets a new entry or one of its entries changes:
\* fetch_cached stores one or, forced, replaces one, a write is cut short, or a
\* body file is removed
NcCacheWrite ==
    /\ nc_hist.ops < MaxNcOps
    /\ \E i \in DOMAIN NcKeys, e \in WbEntries :
          /\ NcKeys[i] \in DOMAIN wb_cache => wb_cache[NcKeys[i]] # e
          /\ wb_cache' = WriteFile(wb_cache, NcKeys[i], e)
    /\ nc_hist' = [nc_hist EXCEPT !.ops = @ + 1, !.last = "write", !.prev = nc_hist.last]
    /\ UNCHANGED <<ingest_log, nc_res>>

\* normalize_cache.run (lines 66-220) on the cache directory
NcRun ==
    /\ nc_hist.ops < MaxNcOps
    /\ LET st == NcLoop(wb_cache, Metas(wb_cache), NcStart(ingest_log)) IN
          /\ ingest_log' = st.log
          /\ nc_res' = NormalizeCacheResult(st)
          /\ nc_hist' = [ops |-> nc_hist.ops + 1, last |-> "run",
                         prev |-> nc_hist.last,
                         log_before |-> ingest_log, called |-> st.called,
                         failed |-> st.failed, prev_failed |-> nc_hist.failed]
    /\ UNCHANGED wb_cache

-----------------------------------------------------------------------------
(***************************************************************************)
(* Specifications                                                          *)
(***************************************************************************)

vars == <<nd_vars, fc_vars, bi_vars, rf_vars, pf_vars, nc_vars>>

\* the writer alone: a single writer calling append_ndjson_dedupe on one file
NdInit == NdIdle /\ FcIdle /\ BiIdle /\ RfIdle /\ PfIdle /\ NcIdle
NdNext == NdCall /\ UNCHANGED <<fc_vars, bi_vars, rf_vars, pf_vars, nc_vars>>
SpecNdjson == NdInit /\ [][NdNext]_vars

\* two processes calling append_ndjson_dedupe on the same path, each call a
\* scan, one step per record and a return, interleaved in every order
CwNext ==
    \/ CwScan /\ UNCHANGED <<fc_vars, bi_vars, rf_vars, pf_vars, nc_vars>>
    \/ CwWrite /\ UNCHANGED <<fc_vars, bi_vars, rf_vars, pf_vars, nc_vars>>
    \/ CwReturn /\ UNCHANGED <<fc_vars, bi_vars, rf_vars, pf_vars, nc_vars>>
SpecWriters == NdInit /\ [][CwNext]_vars

\* the fetch cache alone: sequential fetch_cached calls on one cache directory
FcInit == NdIdle /\ FcIdle /\ BiIdle /\ RfIdle /\ PfIdle /\ NcIdle
FcNext ==
    \/ FcHit /\ UNCHANGED <<nd_vars, bi_vars, rf_vars, pf_vars, nc_vars>>
    \/ FcMiss /\ UNCHANGED <<nd_vars, bi_vars, rf_vars, pf_vars, nc_vars>>
    \/ FcGetResponse /\ UNCHANGED <<nd_vars, bi_vars, rf_vars, pf_vars, nc_vars>>
    \/ FcGetRaise /\ UNCHANGED <<nd_vars, bi_vars, rf_vars, pf_vars, nc_vars>>
    \/ FcWriteBody /\ UNCHANGED <<nd_vars, bi_vars, rf_vars, pf_vars, nc_vars>>
    \/ FcWriteMeta /\ UNCHANGED <<nd_vars, bi_vars, rf_vars, pf_vars, nc_vars>>
    \/ FcSleep /\ UNCHANGED <<nd_vars, bi_vars, rf_vars, pf_vars, nc_vars>>
    \/ FcReturn /\ UNCHANGED <<nd_vars, bi_vars, rf_vars, pf_vars, nc_vars>>
SpecCache == FcInit /\ [][FcNext]_vars

\* the fetch cache with a process that may be killed inside a call
FcCrashNext ==
    \/ FcNext
    \/ FcCrash /\ UNCHANGED <<nd_vars, bi_vars, rf_vars, pf_vars, nc_vars>>
SpecCacheCrash == FcInit /\ [][FcCrashNext]_vars

\* refs.ndjson: the pipelines' appends and runs of enrich_refs.main
RfFrame == UNCHANGED <<nd_vars, fc_call_vars, bi_vars, pf_vars, nc_vars>>
RfInit == NdIdle /\ FcIdle /\ BiIdle /\ RfIdle /\ PfIdle /\ NcIdle
RfNext ==
    \/ RefsAppend /\ RfFrame
    \/ EnrichRefs /\ RfFrame
SpecRefs == RfInit /\ [][RfNext]_vars

\* stable_request_key on pairs of requests
PfFrame == UNCHANGED <<nd_vars, fc_vars, bi_vars, rf_vars, nc_vars>>
PfInit == NdIdle /\ FcIdle /\ BiIdle /\ RfIdle /\ PfIdle /\ NcIdle
KeyNext == KeyCall /\ PfFrame
SpecKey == PfInit /\ [][KeyNext]_vars

\* _split_fixed_width on pairs of a template and a line
SplitNext == SplitCall /\ PfFrame
SpecSplit == PfInit /\ [][SplitNext]_vars

\* parse_lines_response on <pre> blocks
ParseNext == ParseCall /\ PfFrame
SpecParse == PfInit /\ [][ParseNext]_vars

\* split_ref_codes on reference cells
RefCodesNext == RefCodesCall /\ PfFrame
SpecRefCodes == PfInit /\ [][RefCodesNext]_vars

\* reconstruct_asbib_url on kinds and codes
AsbibNext == AsbibCall /\ PfFrame
SpecAsbib == PfInit /\ [][AsbibNext]_vars

\* normalize_cache.run on a WebBook cache that fetch_cached fills
NcFrame == UNCHANGED <<nd_vars, fc_vars, bi_vars, rf_vars, pf_vars>>
NcNext ==
    \/ NcCacheWrite /\ NcFrame
    \/ NcRun /\ NcFrame
SpecNormalizeCache == PfInit /\ [][NcNext]_vars

\* the bulk ingest: runs of main() on one ledger, with crashes
BiFrame == UNCHANGED <<nd_vars, fc_call_vars, rf_vars, pf_vars, nc_vars>>
Init == NdIdle /\ FcIdle /\ BiInit /\ RfIdle /\ PfIdle /\ NcIdle
Next ==
    \/ MainStart /\ BiFrame
    \/ LevelsSkip /\ BiFrame
    \/ LevelsBegin /\ BiFrame
    \/ LevelsTry /\ BiFrame
    \/ LinesStart /\ BiFrame
    \/ PopSkip /\ BiFrame
    \/ PopBegin /\ BiFrame
    \/ LinesTry /\ BiFrame
    \/ LogFailure /\ BiFrame
    \/ FinishBin /\ BiFrame
    \/ ReturnOk /\ BiFrame
    \/ Crash /\ BiFrame
Spec == Init /\ [][Next]_vars

\* fetch_lines.run on tables of two rows
RowsNext == RowsCall /\ PfFrame
SpecRows == PfInit /\ [][RowsNext]_vars

\* _sleep_backoff on attempts and bases
BackoffNext == BackoffCall /\ PfFrame
SpecBackoff == PfInit /\ [][BackoffNext]_vars

\* _dedupe_headers on lists of header texts
DedupeNext == DedupeCall /\ PfFrame
SpecDedupe == PfInit /\ [][DedupeNext]_vars

-----------------------------------------------------------------------------
(***************************************************************************)
(* Properties of append_ndjson_dedupe (checked under SpecNdjson)           *)
(***************************************************************************)

\* the distinct ids of the records that carry one
DistinctIds(recs) == {recs[i].id : i \in {j \in DOMAIN recs : recs[j].id # <<>>}}

\* C1: after any sequence of calls by a single writer on a file that starts
\* empty, no two lines of the file carry the same id (and no line lacks one):
\* every id is persisted at most once.
C1_AtMostOnce ==
    /\ \A i, j \in DOMAIN path : i # j => path[i].id # path[j].id
    /\ \A i \in DOMAIN path : path[i].id # <<>>

\* C1 witness: a later call whose records repeat one id inside the call, on a
\* file that already holds lines, wrote that id once.
C1_Witness ==
    /\ nd_calls >= 2
    /\ Len(before) >= 1
    /\ n = 1
    /\ \E i, j \in DOMAIN records :
          i < j /\ records[i].id # <<>> /\ records[i].id = records[j].id

\* C2: the returned count is the number of lines the call appended; the first
\* call on the empty file returns the number of distinct non-missing ids; a
\* second call with the same records returns 0 and leaves the file unchanged.
C2_Idempotent ==
    /\ n = Len(path) - Len(before)
    /\ SubSeq(path, 1, Len(before)) = before
    /\ nd_calls = 1 => n = Cardinality(DistinctIds(records))
    /\ (nd_calls = 2 /\ nd_same) => (n = 0 /\ path = before)

\* C2 witness: the second call repeated the records of the first, which had
\* written two lines.
C2_Witness ==
    /\ nd_calls = 2
    /\ nd_same
    /\ Len(path) = 2
    /\ n = 0

-----------------------------------------------------------------------------
(***************************************************************************)
(* Properties of fetch_cached (checked under SpecCache)                    *)
(***************************************************************************)

\* C3: for a key that was only ever fetched with force=false and whose network
\* call returned a response, whatever its status: exactly one network call was
\* made, by the first call; the stored body and status are those of that
\* response; every later call returns from_cache=true with the stored status
\* and the path of the stored body.
C3_OneNetworkCall ==
    \A k \in FcKeys :
        LET h == fc_hist[k] IN
        (~h.forced /\ ~h.raised /\ h.done >= 1) =>
            /\ h.net = 1
            /\ k \in DOMAIN body_files
            /\ k \in DOMAIN meta_files
            /\ body_files[k] = h.first[1].content
            /\ meta_files[k].status_code = h.first[1].status_code
            /\ fr.key = k =>
                  /\ fr.kind = "result"
                  /\ fr.status_code = h.first[1].status_code
                  /\ fr.content_path = k
                  /\ fr.from_cache = (h.done >= 2)

\* C3 witness: a second unforced call on a key whose stored response is an
\* error page was answered from the cache.
C3_Witness ==
    \E k \in FcKeys :
        /\ ~fc_hist[k].forced
        /\ ~fc_hist[k].raised
        /\ fc_hist[k].done >= 2
        /\ fc_hist[k].first[1].status_code = 503
        /\ fc_pc = "idle"
        /\ fr.key = k
        /\ fr.from_cache

-----------------------------------------------------------------------------
(***************************************************************************)
(* Properties of ingest_lines_adaptive and main (checked under Spec)       *)
(***************************************************************************)

\* the positions inside ingest_lines_adaptive's loop
LinesPcs == {"pop", "try", "bin_ok", "bin_failed"}

\* the call of ingest_lines_adaptive returned success
LinesOk == pc = "done" /\ ret.lines # <<>> /\ ret.lines[1].ok

\* the intervals <<lo, hi>> of a set of leaves
Intervals(leaves) == {<<l.lo, l.hi>> : l \in leaves}

\* S tiles [a, b]: every interval is non-empty and inside [a, b], every unit
\* cell of [a, b] lies in exactly one interval
IsPartition(S, a, b) ==
    /\ \A iv \in S : a <= iv[1] /\ iv[1] < iv[2] /\ iv[2] <= b
    /\ \A x \in a..(b - 1) :
          Cardinality({iv \in S : iv[1] <= x /\ x + 1 <= iv[2]}) = 1

\* the work left in the call: the bins that may still be popped (those queued
\* and two for every split the budget allows) at max_retries + 4 steps each,
\* plus what is left of the bin in progress
Variant ==
    LET R == cfg.max_retries + 1
        P == Len(queue) + 2 * (cfg.max_splits - splits_used)
    IN  CASE pc = "pop" -> 1 + P * (R + 3)
          [] pc = "try" -> 1 + P * (R + 3) + (R - attempt) + 1
          [] pc \in {"bin_ok", "bin_failed"} -> 1 + P * (R + 3) + 1
          [] OTHER -> 0

\* C4 (leaves): when the call returns success and skipped no bin, every bin
\* that was processed and not split is not truncated, or has width <= min_bin,
\* or was processed when the split budget was used up; and these bins tile
\* [wav_min, wav_max].
C4_Leaves ==
    (LinesOk /\ hist.skipped = {}) =>
        /\ \A l \in hist.leaves :
              \/ ~l.truncated
              \/ l.hi - l.lo <= cfg.min_bin
              \/ l.used >= cfg.max_splits
        /\ IsPartition(Intervals(hist.leaves), cfg.wav_min, cfg.wav_max)

Pending ==
    {queue[i] : i \in DOMAIN queue}
    \cup (IF pc \in {"try", "bin_ok"} THEN {cur} ELSE {})
    \cup Intervals(hist.leaves)

C6_RerunNoOp ==
    (runs >= 2 /\ cfg.resume /\ hist.prev = "ok") =>
        /\ hist.fetches = 0
        /\ Len(ckpt) = hist.ckpt0
        /\ transitions = hist.trans0
        /\ states = hist.states0
        /\ pc = "done" =>
              /\ ret.levels = <<>>
              /\ cfg.mode = "lines" =>
                    ret.lines = <<[ok |-> TRUE, n |-> 0, msg |-> "OK"]>>

\* C6 witness: the second run of a forced configuration is over; it skipped
\* bins of a ledger in which the first run had logged a split.
C6_Witness ==
    /\ runs = 2
    /\ hist.prev = "ok"
    /\ pc = "done"
    /\ cfg.force
    /\ Len(ckpt) >= 4
    /\ Cardinality(hist.skipped) = 2
    /\ ret.lines # <<>>

\* the keys of the bins whose only events in a ledger are failures
FailedOnlyKeys(ledger) ==
    {<<ledger[i].spectrum, ledger[i].lo, ledger[i].hi, ledger[i].unit,
       ledger[i].wavelength_type>> :
        i \in {j \in DOMAIN ledger : ledger[j].kind = "lines" /\ ~ledger[j].ok}}
    \ load_lines_checkpoint(ledger)

\* the keys of the bins the pipeline was called for in this run
FetchedKeys == {BinKey(b[1], b[2]) : b \in hist.fetched}

\* C7: when a resumed run of ingest_lines_adaptive has returned, the
\* pipeline was called in it for every bin whose only events in the ledger
\* the run started from are failures, a child of a split parent included.
C7_FailedRetried ==
    (runs >= 2 /\ cfg.resume /\ cfg.mode = "lines" /\ pc = "done") =>
        FailedOnlyKeys(SubSeq(ckpt, 1, hist.ckpt0)) \subseteq FetchedKeys

\* C7 witness: a resumed run returned after it fetched again the bin that
\* the run before had logged as failed.
C7_Witness ==
    /\ runs >= 2
    /\ cfg.resume
    /\ cfg.mode = "lines"
    /\ pc = "done"
    /\ FailedOnlyKeys(SubSeq(ckpt, 1, hist.ckpt0)) # {}
    /\ FailedOnlyKeys(SubSeq(ckpt, 1, hist.ckpt0)) \subseteq FetchedKeys

\* every unit cell of [a, b] lies in an interval of S
Covers(S, a, b) ==
    \A x \in a..(b - 1) : \E iv \in S : iv[1] <= x /\ x + 1 <= iv[2]

\* C8: when a resumed run returns success after an earlier run failed or
\* crashed, every point of [wav_min, wav_max] lies in a bin that was logged
\* ok and not split (not truncated, or not splittable further).
C8_CoverageSurvives ==
    (runs >= 2 /\ cfg.resume /\ hist.aborted /\ LinesOk) =>
        Covers(Intervals(hist.accepted), cfg.wav_min, cfg.wav_max)

\* the statuses _should_retry is specified to accept
RetryableStatuses == {<<429>>, <<502>>, <<503>>, <<504>>}

\* C9: for the bin or spectrum in progress the pipeline was called at most
\* max_retries + 1 times; every attempt but the last failed with status 429,
\* 502, 503 or 504; while the retry loop runs, so did the last one, and fewer
\* than max_retries + 1 attempts were made; a failure with another status, or
\* the failure of attempt max_retries + 1, ends the unit and the domain
\* returns failure.
C9_RetryDiscipline ==
    LET t == hist.tries IN
    /\ Len(t) <= cfg.max_retries + 1
    /\ \A i \in 1..(Len(t) - 1) : ~t[i].ok /\ t[i].status_code \in RetryableStatuses
    /\ pc \in {"try", "levels_try"} =>
          /\ Len(t) = attempt
          /\ Len(t) <= cfg.max_retries
          /\ t # <<>> => (~t[Len(t)].ok /\ t[Len(t)].status_code \in RetryableStatuses)
    /\ (/\ t # <<>>
        /\ ~t[Len(t)].ok
        /\ (t[Len(t)].status_code \notin RetryableStatuses
              \/ Len(t) = cfg.max_retries + 1)) =>
          /\ pc \in {"bin_failed", "done"}
          /\ pc = "done" => RunEnd = "failed"

\* C9 witness: a bin failed with 503, was tried again, failed with 404 and
\* the call returned failure.
C9_Witness ==
    /\ pc = "done"
    /\ ret.lines # <<>>
    /\ ~ret.lines[1].ok
    /\ Len(hist.tries) = 2
    /\ hist.tries[1].status_code = <<503>>
    /\ hist.tries[2].status_code = <<404>>

\* C10: a bin is given up after a timeout or network error (the pipeline
\* raised) only when max_retries + 1 attempts were made for it.
C10_TimeoutRetried ==
    (pc = "bin_failed" /\ res.message = "Exception") =>
        Len(hist.tries) = cfg.max_retries + 1

-----------------------------------------------------------------------------
(***************************************************************************)
(* Properties of the checkpoint ledger (checked under Spec)                *)
(***************************************************************************)

\* the events the call in progress has appended to the ledger
CallEvents == SubSeq(ckpt, hist.ckpt0 + 1, Len(ckpt))

\* the sum of `written` over the ok=true events of a sequence of events
RECURSIVE SumWritten(_)
SumWritten(evs) ==
    IF evs = <<>> THEN 0
    ELSE (IF Head(evs).ok THEN Head(evs).written ELSE 0) + SumWritten(Tail(evs))

\* the key of a lines event
EventKey(e) == <<e.spectrum, e.lo, e.hi, e.unit, e.wavelength_type>>

\* C11: in a call of ingest_lines_adaptive an ok=false event is the last
\* event of the ledger and is the event of the bin that failed; the call is
\* then over and has returned (False, total, message) with total the sum of
\* `written` over the ok=true events the call appended; no bin left in the
\* queue was fetched.  A call that returned failure did append such an event.
C11_HardFailureStops ==
    cfg.mode = "lines" =>
        /\ \A i \in (hist.ckpt0 + 1)..Len(ckpt) :
              ~ckpt[i].ok =>
                  /\ i = Len(ckpt)
                  /\ pc = "done"
                  /\ EventKey(ckpt[i]) = BinKey(cur[1], cur[2])
                  /\ ret.lines = <<[ok |-> FALSE, n |-> SumWritten(CallEvents),
                                    msg |-> "Lines failed"]>>
                  /\ \A j \in DOMAIN queue : queue[j] \notin hist.fetched
        /\ (pc = "done" /\ ret.lines # <<>> /\ ~ret.lines[1].ok) =>
              (CallEvents # <<>> /\ ~ckpt[Len(ckpt)].ok)

\* C11 witness: a call returned failure with a positive total, after three
\* events, with a bin still queued.
C11_Witness ==
    /\ cfg.mode = "lines"
    /\ pc = "done"
    /\ ret.lines # <<>>
    /\ ~ret.lines[1].ok
    /\ ret.lines[1].n > 0
    /\ Len(CallEvents) >= 3
    /\ queue # <<>>

\* C13: every step that changes the ledger appends exactly one event to it,
\* the old content staying as it was in front of it, and the event is that
\* of the unit that just completed: the bin in progress, or the attempt on
\* the spectrum's levels.
C13_LedgerAppendOnly ==
    [][ckpt' # ckpt =>
          /\ Len(ckpt') = Len(ckpt) + 1
          /\ SubSeq(ckpt', 1, Len(ckpt)) = ckpt
          /\ \/ /\ pc \in {"bin_ok", "bin_failed"}
                /\ ckpt'[Len(ckpt')].kind = "lines"
                /\ EventKey(ckpt'[Len(ckpt')]) = BinKey(cur[1], cur[2])
                /\ ckpt'[Len(ckpt')].ok = (pc = "bin_ok")
             \/ /\ pc = "levels_try"
                /\ ckpt'[Len(ckpt')].kind = "levels"
                /\ ckpt'[Len(ckpt')].ok = res'.ok]_vars

\* C13 witness: a ledger of a second run that holds events of both runs, a
\* failure among them.
C13_Witness ==
    /\ runs = 2
    /\ hist.ckpt0 >= 2
    /\ Len(ckpt) >= hist.ckpt0 + 2
    /\ \E i \in DOMAIN ckpt : ~ckpt[i].ok

\* the lines keys whose most recent lines event in a ledger is a success
LatestOkBins(ledger) ==
    {EventKey(ledger[i]) :
        i \in {j \in DOMAIN ledger :
                  /\ ledger[j].kind = "lines"
                  /\ ledger[j].ok
                  /\ \A m \in DOMAIN ledger :
                        (m > j /\ ledger[m].kind = "lines"
                           /\ EventKey(ledger[m]) = EventKey(ledger[j]))
                        => ledger[m].ok}}

\* the spectra whose most recent levels event in a ledger is a success
LatestOkSpectra(ledger) ==
    {ledger[i].spectrum :
        i \in {j \in DOMAIN ledger :
                  /\ ledger[j].kind = "levels"
                  /\ ledger[j].ok
                  /\ \A m \in DOMAIN ledger :
                        (m > j /\ ledger[m].kind = "levels"
                           /\ ledger[m].spectrum = ledger[j].spectrum)
                        => ledger[m].ok}}

\* C12: the completed sets loaded from the ledger are exactly the bins and
\* the spectra whose most recent event of their kind is a success.
C12_CompletedIsLatestSuccess ==
    /\ load_lines_checkpoint(ckpt) = LatestOkBins(ckpt)
    /\ load_levels_checkpoint(ckpt) = LatestOkSpectra(ckpt)

\* C12 witness: a ledger with a bin whose failure is followed by a success,
\* and a bin that only failed; the loaded set holds the first and not the
\* second.
C12_Witness ==
    /\ load_lines_checkpoint(ckpt) = LatestOkBins(ckpt)
    /\ \E i, j \in DOMAIN ckpt :
          /\ i < j
          /\ ckpt[i].kind = "lines" /\ ckpt[j].kind = "lines"
          /\ ~ckpt[i].ok /\ ckpt[j].ok
          /\ EventKey(ckpt[i]) = EventKey(ckpt[j])
    /\ FailedOnlyKeys(ckpt) # {}

\* C14: when no attempt of the run is waiting for its outcome, the run has
\* appended as many events to the ledger as it made calls of the fetch
\* pipeline: one event per attempt, retried attempts included.
C14_EveryAttemptLogged ==
    pc \in {"pop", "done"} => Len(CallEvents) = hist.fetches

\* C14 witness: a levels call is over after two attempts and two events.
C14_Witness ==
    /\ cfg.mode = "levels"
    /\ pc = "done"
    /\ hist.fetches = 2
    /\ Len(CallEvents) = 2

\* C15: a call of ingest_levels that has returned appended exactly one
\* event for its spectrum, whatever the number of attempts.
C15_OneEventPerSpectrum ==
    (cfg.mode = "levels" /\ pc = "done" /\ ret.levels # <<>>) =>
        Len(CallEvents) = 1

\* C15 witness: a call of ingest_levels returned at its first attempt with
\* one event.
C15_Witness ==
    /\ cfg.mode = "levels"
    /\ pc = "done"
    /\ ret.levels # <<>>
    /\ Len(hist.tries) = 1
    /\ Len(CallEvents) = 1

\* the attempt got a 200 response whose body parses to zero rows
ZeroRows(t) ==
    /\ t.status_code = <<200>>
    /\ t.raw_path # <<>>
    /\ count_lines_rows(body_files, t.raw_path) = 0

\* C16: an attempt that got a 200 response with zero rows returned ok=true
\* with written = 0, in the lines and in the levels pipeline; the unit does
\* not fail and the run does not end in failure on it.
C16_ZeroRowsIsSuccess ==
    \A i \in DOMAIN hist.tries :
        ZeroRows(hist.tries[i]) =>
            /\ hist.tries[i].ok
            /\ hist.tries[i].written = 0
            /\ pc # "bin_failed"
            /\ pc = "done" => RunEnd = "ok"

\* C16 witness: a lines bin whose 200 response had zero rows was logged
\* ok=true with written = 0 and the loop went on.
C16_Witness ==
    /\ cfg.mode = "lines"
    /\ pc = "pop"
    /\ hist.tries # <<>>
    /\ ZeroRows(hist.tries[Len(hist.tries)])
    /\ CallEvents # <<>>
    /\ ckpt[Len(ckpt)].ok
    /\ ckpt[Len(ckpt)].written = 0
    /\ ckpt[Len(ckpt)].parsed_rows = 0

-----------------------------------------------------------------------------
(***************************************************************************)
(* Properties of the normalized files (checked under Spec)                 *)
(***************************************************************************)

\* C17: an upstream row is stored at most once in the transitions file and
\* in the states file, whichever bins and runs returned it: the id made for
\* a row is the same in every bin and every run, so that a row met again
\* writes nothing.
C17_StableIds ==
    /\ \A i, j \in DOMAIN transitions :
          transitions[i].val.row = transitions[j].val.row => i = j
    /\ \A i, j \in DOMAIN states :
          states[i].val.row = states[j].val.row => i = j

\* C17 witness: in a second run, after a split, a bin whose response holds
\* rows was logged with written = 0: its rows were already stored by another
\* bin, in this run or the one before.
C17_Witness ==
    /\ runs = 2
    /\ splits_used >= 1
    /\ CallEvents # <<>>
    /\ ckpt[Len(ckpt)].kind = "lines"
    /\ ckpt[Len(ckpt)].ok
    /\ ckpt[Len(ckpt)].parsed_rows >= 1
    /\ ckpt[Len(ckpt)].written = 0
    /\ \E i \in DOMAIN transitions :
          transitions[i].val.notes # <<ckpt[Len(ckpt)].lo \div Pow5,
                                       ckpt[Len(ckpt)].hi \div Pow5>>

\* ls is the beginning of ms
IsPrefix(ls, ms) == Len(ls) <= Len(ms) /\ SubSeq(ms, 1, Len(ls)) = ls

\* C18: no operation changes or removes a line of a normalized file: the
\* content of refs.ndjson before an operation is the beginning of its
\* content after it.
C18_LinesImmutable == IsPrefix(refs_before, refs)

\* C18 witness: an append by the pipeline on a file that held lines added a
\* line and left the others as they were.
C18_Witness ==
    /\ rf_op = "append"
    /\ Len(refs_before) >= 1
    /\ Len(refs) > Len(refs_before)
    /\ IsPrefix(refs_before, refs)

-----------------------------------------------------------------------------
(***************************************************************************)
(* Properties of the cache files under crashes (checked under              *)
(* SpecCacheCrash)                                                         *)
(***************************************************************************)

\* C19: whenever no call is in progress, a crashed call included, the cache
\* directory holds <key>.body exactly for the keys it holds <key>.meta.json
\* for.
C19_BodyAndMetaTogether ==
    fc_pc = "idle" => DOMAIN body_files = DOMAIN meta_files

\* C19 witness: a call on a key without entry ran to its end and left both
\* files.
C19_Witness ==
    \E k \in FcKeys :
        /\ fc_pc = "idle"
        /\ fr # <<>>
        /\ fr.key = k
        /\ fr.kind = "result"
        /\ ~fr.from_cache
        /\ fc_hist[k].net = 1
        /\ k \in DOMAIN body_files
        /\ k \in DOMAIN meta_files

\* the entry of key k is one response: the metadata records the hash of the
\* body that is stored
EntryConsistent(k) == meta_files[k].content_sha256 = sha256_bytes(body_files[k])

\* C20: whenever no call is in progress, a crashed forced call included,
\* every entry of the cache is the body and the metadata of one response,
\* and a call answered from the cache returns such an entry.
C20_ForceReplacesAtomically ==
    fc_pc = "idle" =>
        /\ \A k \in DOMAIN body_files \cap DOMAIN meta_files : EntryConsistent(k)
        /\ (fr # <<>> /\ fr.kind = "result" /\ fr.from_cache) =>
              EntryConsistent(fr.key)

\* C20 witness: a forced call on a key that had an entry ran to its end and
\* left the body and the metadata of the new response.
C20_Witness ==
    \E k \in FcKeys :
        /\ fc_pc = "idle"
        /\ fr # <<>>
        /\ fr.key = k
        /\ fr.kind = "result"
        /\ ~fr.from_cache
        /\ fc_hist[k].forced
        /\ fc_hist[k].net = 2
        /\ body_files[k] # fc_hist[k].first[1].content
        /\ EntryConsistent(k)

-----------------------------------------------------------------------------
(***************************************************************************)
(* fetch_cached: errors of the network call and the politeness delay       *)
(* (checked under SpecCache)                                               *)
(***************************************************************************)

\* C21: when the network call of fetch_cached raises, the error reaches the
\* caller and the cache entry of the key is exactly what it was when the call
\* began: no body file and no metadata file is written or modified.
C21_RaiseLeavesEntry ==
    [][(fc_pc = "get" /\ fc_pc' = "idle" /\ fr'.kind = "raise") =>
          /\ fr'.key = fc_args.key
          /\ EntryOf(body_files', meta_files', fc_args.key) = fc_args.entry
          /\ body_files' = body_files
          /\ meta_files' = meta_files]_vars

\* C21 witness: a forced call on a key that has a stored entry ended with the
\* network call raising.
C21_Witness ==
    /\ fc_pc = "idle"
    /\ fr # <<>>
    /\ fr.kind = "raise"
    /\ fr.key \in DOMAIN body_files \cap DOMAIN meta_files
    /\ fc_hist[fr.key].done >= 2

\* C22: a call that made a network request and got a response sleeps the
\* politeness delay exactly once before it returns, and sleeps it after the
\* body and the metadata of the response were written; a call answered from
\* the cache returns without a delay.
C22_DelayAfterNetworkOnly ==
    /\ (fc_pc = "idle" /\ fr # <<>> /\ fr.kind = "result") =>
          fr.delays = IF fr.from_cache THEN 0 ELSE 1
    /\ fc_pc \in {"get", "write_body", "write_meta", "sleep"} => fc_args.slept = 0
    /\ fc_pc = "return" =>
          /\ fc_args.slept = 1
          /\ fc_args.key \in DOMAIN body_files \cap DOMAIN meta_files
          /\ body_files[fc_args.key] = fc_resp.content
          /\ meta_files[fc_args.key] = MetaOf(fc_args.params, fc_resp)

\* C22 witness: a forced call on a key that has a stored entry went to the
\* network and returned after one delay.
C22_Witness ==
    /\ fc_pc = "idle"
    /\ fr # <<>>
    /\ fr.kind = "result"
    /\ ~fr.from_cache
    /\ fr.delays = 1
    /\ fc_hist[fr.key].done >= 2

-----------------------------------------------------------------------------
(***************************************************************************)
(* stable_request_key (checked under SpecKey)                              *)
(***************************************************************************)

\* the set of (name, str(value)) pairs of a dict
ItemSet(d) == {<<d[i][1], str_param(d[i][2])>> : i \in DOMAIN d}

\* C23: the key is determined by the URL and the set of (name, str(value))
\* pairs: two requests with the same URL and the same set of pairs have the
\* same key, whatever the insertion order of the parameters and whatever the
\* types of values with the same string form; identical requests have the
\* same key.
C23_KeyOfUrlAndItems ==
    pf_op = "stable_request_key" =>
        ((pf_in.url1 = pf_in.url2 /\ ItemSet(pf_in.params1) = ItemSet(pf_in.params2))
            => pf_out[1] = pf_out[2])

\* C23 witness: two requests with the same two parameters inserted in
\* opposite orders, one value an int and the other the string of that int,
\* got the same key.
C23_Witness ==
    /\ pf_op = "stable_request_key"
    /\ pf_in.url1 = pf_in.url2
    /\ Len(pf_in.params1) = 2
    /\ Len(pf_in.params2) = 2
    /\ pf_in.params1[1][1] = pf_in.params2[2][1]
    /\ pf_in.params1[2][1] = pf_in.params2[1][1]
    /\ pf_in.params1[1][2] # pf_in.params2[2][2]
    /\ pf_out[1] = pf_out[2]

-----------------------------------------------------------------------------
(***************************************************************************)
(* _split_fixed_width (checked under SpecSplit)                            *)
(***************************************************************************)

\* number of delimiter characters of a line
CountPipes(ln) == Cardinality({i \in DOMAIN ln : ln[i] = "|"})

\* cell is a run of consecutive characters of ln taken from positions a..b
IsSliceWithin(cell, ln, a, b) ==
    \/ cell = <<>>
    \/ \E s \in a..b : \E e \in s..b :
          /\ e <= Len(ln)
          /\ cell = SubSeq(ln, s, e)

\* the positions between delimiter i - 1 and delimiter i of the template:
\* from the start of the line for the first cell, to the end of the line for
\* the last
CellFirst(pos, i) == IF i = 1 THEN 1 ELSE pos[i - 1] + 1
CellLast(pos, i, ln) == IF i = Len(pos) + 1 THEN Len(ln) ELSE pos[i] - 1

\* C24: slicing a line at the delimiter positions of a template with k
\* delimiters yields exactly k + 1 cells, also when the line is shorter than
\* the template or has fewer than k delimiters, and cell i is made only of
\* characters of the line that lie between delimiter positions i - 1 and i of
\* the template.
C24_ColumnIntegrity ==
    pf_op = "split_fixed_width" =>
        LET pos == pipe_positions(pf_in.template) IN
        /\ Len(pos) = CountPipes(pf_in.template)
        /\ Len(pf_out) = CountPipes(pf_in.template) + 1
        /\ \A i \in DOMAIN pf_out :
              IsSliceWithin(pf_out[i], pf_in.line,
                            CellFirst(pos, i), CellLast(pos, i, pf_in.line))

\* C24 witness: a line that is shorter than the template and has fewer
\* delimiters than it was sliced into three cells, one of them not empty.
C24_Witness ==
    /\ pf_op = "split_fixed_width"
    /\ CountPipes(pf_in.template) = 2
    /\ CountPipes(pf_in.line) < 2
    /\ Len(pf_in.line) < Len(pf_in.template)
    /\ Len(pf_out) = 3
    /\ \E i \in DOMAIN pf_out : pf_out[i] # <<>>

-----------------------------------------------------------------------------
(***************************************************************************)
(* parse_lines_response (checked under SpecParse)                          *)
(***************************************************************************)

\* number of separator lines of a block
SeparatorCount(doc) == Cardinality({i \in DOMAIN doc : is_separator(doc[i])})

\* the edge policy for one parsed table
EdgePolicy(doc, out) ==
    /\ SeparatorCount(doc) < 2 => out = EmptyFrame
    /\ out.kind = "frame"
    /\ \A r \in DOMAIN out.rows :
          LET row == out.rows[r] IN
          /\ HasPipe(doc[row.src])
          /\ ~is_separator(doc[row.src])
          /\ \E c \in DOMAIN row.cells : row.cells[c] # <<>>

-----------------------------------------------------------------------------
(***************************************************************************)
(* split_ref_codes (checked under SpecRefCodes)                            *)
(***************************************************************************)

\* the cell is None, empty after trimming, or the placeholder
IsPlaceholderCell(cell) ==
    \/ cell = <<>>
    \/ strip(cell[1]) = <<>>
    \/ lower(strip(cell[1])) = <<"n", "a", "n">>

\* the trimmed, non-empty pieces between the commas of a cell
CellPieces(cell) == NonEmpty(SplitOnCommas(cell[1], <<>>))

\* position of the first occurrence of an item
FirstAt(parts, x) ==
    CHOOSE i \in DOMAIN parts : parts[i] = x /\ \A j \in 1..(i - 1) : parts[j] # x

\* C26: split_ref_codes returns the comma-separated codes of the cell,
\* trimmed, without empty items, in first-occurrence order and without
\* repeats; the empty list for None, an empty cell or the placeholder 'nan';
\* and applied to the comma-joined result it returns the same list.
C26_SplitRefCodes ==
    pf_op = "split_ref_codes" =>
        LET codes == pf_out.codes IN
        /\ IsPlaceholderCell(pf_in) => codes = <<>>
        /\ ~IsPlaceholderCell(pf_in) =>
              LET pieces == CellPieces(pf_in) IN
              /\ {codes[i] : i \in DOMAIN codes} = {pieces[i] : i \in DOMAIN pieces}
              /\ \A i, j \in DOMAIN codes :
                    i < j => FirstAt(pieces, codes[i]) < FirstAt(pieces, codes[j])
        /\ \A i \in DOMAIN codes : codes[i] # <<>> /\ strip(codes[i]) = codes[i]
        /\ \A i, j \in DOMAIN codes : i # j => codes[i] # codes[j]
        /\ pf_out.again = codes

\* C26 witness: a cell with three codes, one of them repeated, gave two
\* codes.
C26_Witness ==
    /\ pf_op = "split_ref_codes"
    /\ pf_in # <<>>
    /\ Len(CellPieces(pf_in)) = 3
    /\ Len(pf_out.codes) = 2

-----------------------------------------------------------------------------
(***************************************************************************)
(* reconstruct_asbib_url(kind, code) (checked under SpecAsbib)             *)
(***************************************************************************)

AllIn(str_, class) == \A i \in DOMAIN str_ : str_[i] \in class

\* str_ is <letters><digits> with the digits ending at position j, followed
\* by nothing (no comment) or by one letter and digits (the comment)
ShapeAt(str_, i, j) ==
    /\ 1 <= i /\ i < j /\ j <= Len(str_)
    /\ AllIn(SubSeq(str_, 1, i), Letters)
    /\ AllIn(SubSeq(str_, i + 1, j), Digits)
    /\ \/ j = Len(str_)
       \/ /\ j + 2 <= Len(str_)
          /\ str_[j + 1] \in Letters
          /\ AllIn(SubSeq(str_, j + 2, Len(str_)), Digits)

HasShape(str_) == \E i, j \in DOMAIN str_ : ShapeAt(str_, i, j)

\* the URL holds name=value
UrlHas(url, name, value) == \E q \in DOMAIN url.query : url.query[q] = <<name, value>>
UrlHasName(url, name) == \E q \in DOMAIN url.query : url.query[q][1] = name

-----------------------------------------------------------------------------
(***************************************************************************)
(* normalize_cache.run (checked under SpecNormalizeCache)                  *)
(***************************************************************************)

\* the cache keys of the rows of the ingest log
LoggedKeys(log) == {log[i].id[1] : i \in DOMAIN log}

\* C28: a run never invokes the normalizer on a cache key that the ingest
\* log held when the run began (logged as processed or as expected no-data);
\* a run that follows a run, with no cache write in between, reports
\* processed = 0 and skipped_already_ingested equal to the number of rows the
\* log held; the log holds each cache_key at most once.
C28_IngestAtMostOnce ==
    /\ \A i, j \in DOMAIN ingest_log :
          i # j => ingest_log[i].id # ingest_log[j].id
    /\ nc_hist.last = "run" =>
          /\ \A c \in DOMAIN nc_hist.called :
                nc_hist.called[c] \notin LoggedKeys(nc_hist.log_before)
          /\ nc_hist.prev = "run" =>
                /\ nc_res.processed = 0
                /\ nc_res.skipped_already_ingested = Len(nc_hist.log_before)

\* C28 witness: a run right after a run that had logged two entries, one as
\* processed and one as expected no-data, processed nothing and skipped both.
C28_Witness ==
    /\ nc_hist.last = "run"
    /\ nc_hist.prev = "run"
    /\ Len(nc_hist.log_before) = 2
    /\ \E i \in DOMAIN ingest_log : ingest_log[i].val.no_data
    /\ \E i \in DOMAIN ingest_log : ingest_log[i].val.normalize_ok
    /\ nc_res.processed = 0
    /\ nc_res.skipped_already_ingested = 2

-----------------------------------------------------------------------------
(***************************************************************************)
(* The split rule of ingest_lines_adaptive (checked under Spec)            *)
(***************************************************************************)

\* the bins _make_bins gives the run to start with
InitialBins ==
    LET b == make_bins(cfg.wav_min, cfg.wav_max, cfg.initial_bin)
    IN {b[i] : i \in DOMAIN b}

\* the bins waiting in the queue and the bin in progress
LiveBins == {queue[i] : i \in DOMAIN queue} \cup (IF cur = <<>> THEN {} ELSE {cur})

\* C29: no bin created by a split, so no bin of the run other than an
\* initial bin, has a width smaller than min_bin.
C29_MinBinRespected ==
    \A b \in LiveBins : b \notin InitialBins => b[2] - b[1] >= cfg.min_bin

\* C29 witness: a split has put its two halves on the queue.
C29_Witness ==
    /\ pc = "pop"
    /\ splits_used >= 1
    /\ Len(queue) >= 2
    /\ queue[1] \notin InitialBins
    /\ queue[2] \notin InitialBins
    /\ queue[1][2] = queue[2][1]

-----------------------------------------------------------------------------
(***************************************************************************)
(* Processing order, ledger accounting and sleeps of ingest_lines_adaptive *)
(* (checked under Spec)                                                    *)
(***************************************************************************)

\* the bin b lies inside the bin f
Within(b, f) == f[1] <= b[1] /\ b[2] <= f[2]

\* the bin in progress and the queue are in order: the queue ascends, every
\* queued bin lies above the bin in progress, and every bin fetched before lies
\* below the bin in progress or contains it
InOrder ==
    /\ \A i, j \in DOMAIN queue : i < j => queue[i][2] <= queue[j][1]
    /\ pc \in {"try", "bin_ok", "bin_failed"} =>
          /\ \A i \in DOMAIN queue : cur[2] <= queue[i][1]
          /\ \A f \in hist.fetched \ {cur} : f[2] <= cur[1] \/ Within(cur, f)

\* C31: bins are taken from the front of the queue and the halves of a split
\* are put in front of it, lower half first; so the descendants of a split bin
\* are processed before any bin that was behind it (every queued bin lies above
\* the bin in progress, every bin fetched earlier lies below it or contains
\* it), and the bins that are not split are processed in strictly increasing
\* order of their lower bound.
C31_ProcessingOrder ==
    /\ [](InOrder)
    /\ [][/\ (pc = "pop" /\ pc' \in {"pop", "try"}) =>
                (queue # <<>> /\ cur' = Head(queue) /\ queue' = Tail(queue))
          /\ (pc = "bin_ok" /\ pc' = "pop") =>
                LET mid == (cur[1] + cur[2]) \div 2 IN
                \/ /\ queue' = queue
                   /\ \A l \in hist.leaves : l.lo < cur[1]
                   /\ hist'.leaves = hist.leaves \cup {l \in hist'.leaves : l.lo = cur[1]}
                \/ /\ queue' = << <<cur[1], mid>>, <<mid, cur[2]>> >> \o queue
                   /\ hist'.leaves = hist.leaves]_vars

\* C31 witness: a call returned success after it split its first bin: the two
\* halves and the bin that was behind them were processed and not split.
C31_Witness ==
    /\ LinesOk
    /\ splits_used >= 1
    /\ hist.skipped = {}
    /\ Cardinality(hist.leaves) >= 3
    /\ \E a, b, c \in hist.leaves : a.hi = b.lo /\ b.hi <= c.lo /\ a.hi - a.lo < c.lo

\* the events the run in progress has appended to the ledger
EventsOfCall == Len(ckpt) - hist.ckpt0

\* the call of ingest_lines_adaptive returned and none of its attempts failed
LinesDoneNoFailure == pc = "done" /\ ret.lines # <<>> /\ hist.failures = 0

\* one event per bin: a step of the loop appends one event when it finishes a
\* bin (ok with parsed_rows and page_size of the response) or gives it up (not
\* ok, and the call returns), and none otherwise; between two bins the events
\* of the call are as many as the bins it fetched, none of them skipped
OneEventPerBin ==
    /\ []((pc = "pop" \/ (pc = "done" /\ ret.lines # <<>>)) =>
            /\ EventsOfCall = Cardinality(hist.fetched)
            /\ hist.fetched \cap hist.skipped = {})
    /\ [][(pc \in LinesPcs /\ pc' # "crashed") =>
            IF pc \in {"bin_ok", "bin_failed"}
            THEN /\ Len(ckpt') = Len(ckpt) + 1
                 /\ SubSeq(ckpt', 1, Len(ckpt)) = ckpt
                 /\ LET e == ckpt'[Len(ckpt')] IN
                    /\ e.kind = "lines"
                    /\ e.lo = fmt12g(cur[1]) /\ e.hi = fmt12g(cur[2])
                    /\ e.ok = (pc = "bin_ok")
                    /\ e.ok => /\ e.parsed_rows = count_lines_rows(body_files, res.raw_path)
                               /\ e.page_size = read_page_size(meta_files, res.raw_path)
                    /\ ~e.ok => pc' = "done"
            ELSE ckpt' = ckpt]_vars

\* C32: ingest_lines_adaptive appends exactly one event for every bin it pops
\* and does not skip (ok=true with parsed_rows and page_size on success,
\* ok=false on final failure) and none for a skipped bin; in a run where no
\* attempt fails the number of events appended equals the number of fetch
\* calls, which equals the number of initial bins plus twice the number of
\* splits.
C32_LedgerAccounting ==
    /\ OneEventPerBin
    /\ [](LinesDoneNoFailure =>
            /\ EventsOfCall = hist.fetches
            /\ hist.fetches = Len(make_bins(cfg.wav_min, cfg.wav_max, cfg.initial_bin))
                                + 2 * splits_used)

\* C32 as amended: the same, the bins skipped as already done taken off the
\* count: events = fetch calls = initial bins + 2 * splits - skipped bins.
C32_LedgerAccountingSkips ==
    /\ OneEventPerBin
    /\ [](LinesDoneNoFailure =>
            /\ EventsOfCall = hist.fetches
            /\ hist.fetches = Len(make_bins(cfg.wav_min, cfg.wav_max, cfg.initial_bin))
                                + 2 * splits_used - Cardinality(hist.skipped))

\* C32 witness: a resumed call returned with no failed attempt after it
\* skipped a bin, fetched others and split one.
C32_Witness ==
    /\ LinesDoneNoFailure
    /\ hist.skipped # {}
    /\ hist.fetches >= 2
    /\ splits_used >= 1

\* the cache key of the request for the bin in progress
CurKey == stable_request_key(LINES_URL, build_lines_params(cur[1], cur[2]))

\* C33: with force=false a retry after a retryable failure issues a fresh
\* network request (it is not answered by the cache entry the failed attempt
\* wrote), and a later resumed run fetches again from the network a bin whose
\* cached response is a failure.
C33_RetryReachesNetwork ==
    [][(/\ pc = "try"
        /\ pc' # "crashed"
        /\ ~cfg.force
        /\ \/ attempt >= 1
           \/ /\ cfg.resume /\ runs >= 2
              /\ CurKey \in DOMAIN meta_files
              /\ meta_files[CurKey].status_code # 200)
       => hist'.net = hist.net + 1]_vars

\* C33 witness: with force=false, the retry after a 503 was answered with the
\* same 503 and the run made one network request in two pipeline calls.
C33_Witness ==
    /\ pc = "bin_failed"
    /\ ~cfg.force
    /\ Len(hist.tries) = 2
    /\ hist.tries[1].status_code = <<503>>
    /\ hist.tries[2].status_code = <<503>>
    /\ hist.fetches = 2
    /\ hist.net = 1

-----------------------------------------------------------------------------
(***************************************************************************)
(* Transition ids of the rows of a table (checked under SpecRows)          *)
(***************************************************************************)

\* C34: two rows of one parsed lines table that differ in any modelled field
\* (level, Aki, a reference code that is not the first, ...) get different
\* transition_ids, so append_ndjson_dedupe persists both.
C34_NoRowLost ==
    pf_op = "fetch_lines_rows" =>
        LET r1 == pf_in[1]
            r2 == pf_in[2]
        IN  (r1 # r2 /\ wav_of(r1) # <<>> /\ wav_of(r2) # <<>>) =>
                /\ TransRecordOfRow(r1, 0, Scale).id # TransRecordOfRow(r2, 0, Scale).id
                /\ Len(pf_out) = 2

\* C34 witness: two rows with different reference codes in first place were
\* both persisted.
C34_Witness ==
    /\ pf_op = "fetch_lines_rows"
    /\ pf_in[1].line_codes = <<>>
    /\ pf_in[2].line_codes = << <<"L", "1">> >>
    /\ pf_in[1].lower = pf_in[2].lower
    /\ wav_of(pf_in[1]) # <<>>
    /\ wav_of(pf_in[2]) # <<>>
    /\ Len(pf_out) = 2

-----------------------------------------------------------------------------
(***************************************************************************)
(* Sleeps of ingest_lines_adaptive (checked under Spec)                    *)
(***************************************************************************)

\* C35: inside one call of ingest_lines_adaptive, when the pipeline is called
\* and was called before in the call, the loop slept exactly once since then:
\* the backoff sleep if the call is a retry of the same bin, the polite sleep
\* if it is the first attempt of another bin; skipping a bin is neither a
\* pipeline call nor a sleep.
C35_OneSleepBetweenFetches ==
    [][/\ (pc = "try" /\ pc' # "crashed") =>
            /\ hist'.fetches = hist.fetches + 1
            /\ hist.fetches >= 1 =>
                  hist.sleeps = IF attempt >= 1 THEN <<"backoff">> ELSE <<"polite">>
       /\ (pc = "pop" /\ pc' = "pop") =>
            /\ hist'.fetches = hist.fetches
            /\ hist'.sleeps = hist.sleeps
            /\ hist'.skipped # hist.skipped]_vars

\* C35 witness: in one call a bin was retried after a backoff sleep and
\* finished, and the pipeline is about to be called for the next bin after one
\* polite sleep.
C35_Witness ==
    /\ pc = "try"
    /\ attempt = 0
    /\ hist.fetches >= 2
    /\ hist.failures >= 1
    /\ hist.sleeps = <<"polite">>

-----------------------------------------------------------------------------
(***************************************************************************)
(* The backoff schedule (checked under SpecBackoff)                        *)
(***************************************************************************)

\* C36: the wait before retry number a is min(base * 2^a, 60) seconds (the
\* wait of retry 0 is min(base, 60), that of retry a is the smaller of twice
\* the wait of retry a - 1 and 60); for a non-negative base it does not
\* decrease with a and never exceeds 60, whatever max_retries is.
C36_BackoffSchedule ==
    pf_op = "sleep_backoff" =>
        LET a == pf_in.attempt
            base == pf_in.base
            prev == sleep_backoff(a - 1, base)
        IN  /\ pf_out.kind = "sleep"
            /\ pf_out.t <= MAX_WAIT
            /\ a = 0 => pf_out.t = Min(base, MAX_WAIT)
            /\ a >= 1 => /\ prev.kind = "sleep"
                         /\ pf_out.t = Min(2 * prev.t, MAX_WAIT)
                         /\ prev.t <= pf_out.t

\* C36 witness: with the default base of 2 seconds the wait before retry 5
\* is the cap of 60 seconds.
C36_Witness ==
    /\ pf_op = "sleep_backoff"
    /\ pf_in.base = 4
    /\ pf_in.attempt = 5
    /\ pf_out.kind = "sleep"
    /\ pf_out.t = MAX_WAIT

-----------------------------------------------------------------------------
(***************************************************************************)
(* Column names of the lines parser (checked under SpecDedupe)             *)
(***************************************************************************)

\* C37: the column names the parser gives are pairwise distinct for every
\* list of merged header texts, also when a header text equals a generated
\* name with a suffix; there is one name per column.
C37_DistinctColumns ==
    pf_op = "dedupe_headers" =>
        /\ Len(pf_out) = Len(pf_in)
        /\ \A i, j \in DOMAIN pf_out : i # j => pf_out[i] # pf_out[j]

\* C37 witness: a name met twice got the suffix "__2" and the names are
\* distinct.
C37_Witness ==
    /\ pf_op = "dedupe_headers"
    /\ pf_in = << <<"A">>, <<"B">>, <<"A">> >>
    /\ pf_out = << <<"A">>, <<"B">>, <<"A", "_", "_", "2">> >>

-----------------------------------------------------------------------------
(***************************************************************************)
(* Failed entries and the counters of normalize_cache.run                  *)
(* (checked under SpecNormalizeCache)                                      *)
(***************************************************************************)

\* the seven counters that partition the scanned metadata files
CounterSum(r) ==
    r.skipped_already_ingested + r.skipped_incomplete_pair
    + r.skipped_non_200 + r.skipped_non_diatomic_mask + r.processed
    + r.skipped_no_diatomic_table + r.errors

\* C38: after a run, every cache key whose normalization raised or returned
\* an unexpected failure is counted in errors (ok is false) and is not in
\* the ingest log; when the run follows a run with no cache change between
\* them, the keys that failed in the earlier run are handed to the normalizer
\* again; and the seven counters skipped_already_ingested,
\* skipped_incomplete_pair, skipped_non_200, skipped_non_diatomic_mask,
\* processed, skipped_no_diatomic_table and errors add up to scanned, which
\* is the number of metadata files in the cache directory.
C38_FailedNotIngested ==
    nc_hist.last = "run" =>
        /\ nc_hist.failed \cap LoggedKeys(ingest_log) = {}
        /\ nc_res.errors >= Cardinality(nc_hist.failed)
        /\ nc_hist.failed # {} => ~nc_res.ok
        /\ nc_hist.prev = "run" =>
              /\ \A k \in nc_hist.prev_failed :
                    \E c \in DOMAIN nc_hist.called : nc_hist.called[c] = k
              /\ nc_hist.failed = nc_hist.prev_failed
        /\ nc_res.scanned = Len(Metas(wb_cache))
        /\ CounterSum(nc_res) = nc_res.scanned

\* C38 witness: the second of two runs in a row on a cache of two entries,
\* one whose normalization raises and one without its body file: the failed
\* key is not logged, was handed to the normalizer again, and the counters
\* read errors = 1, skipped_incomplete_pair = 1, scanned = 2.
C38_Witness ==
    /\ nc_hist.last = "run"
    /\ nc_hist.prev = "run"
    /\ nc_hist.prev_failed = {"k1"}
    /\ nc_hist.called = <<"k1">>
    /\ "k1" \notin LoggedKeys(ingest_log)
    /\ nc_res.errors = 1
    /\ nc_res.skipped_incomplete_pair = 1
    /\ nc_res.scanned = 2

-----------------------------------------------------------------------------
(***************************************************************************)
(* Two concurrent calls of append_ndjson_dedupe (checked under SpecWriters)*)
(***************************************************************************)

\* the ids (as str) of the records a call was given
InputIds(recs) == {str(recs[i].id[1]) : i \in {j \in DOMAIN recs : recs[j].id # <<>>}}

\* the lines of the file that carry the id
LinesWithId(file, rid) == {i \in DOMAIN file : file[i].id = <<rid>>}

\* C39: when the calls of the two processes have returned and both had
\* scanned the file before either appended a line, every id that is in both
\* inputs and was in the file at neither scan has been appended by both
\* calls, so the file holds it on two lines at least; and as long as no call
\* began while the other process was inside a call, no id is on two lines of
\* the file.
C39_SingleWriterAssumption ==
    /\ ~cw.overlap =>
          \A i, j \in DOMAIN path :
              (i # j /\ path[i].id # <<>>) => path[i].id # path[j].id
    /\ (\A w \in Writers : cw.proc[w].pc = "out" /\ cw.proc[w].raced) =>
          \A rid \in (InputIds(cw.proc["w1"].records) \cap InputIds(cw.proc["w2"].records))
                        \ (cw.proc["w1"].scanned \cup cw.proc["w2"].scanned) :
              /\ \A w \in Writers : rid \in cw.proc[w].wrote
              /\ Cardinality(LinesWithId(path, rid)) >= 2

\* C39 witness: both processes were given a record with id "a", both scanned
\* the empty file before either appended, both have returned 1, and the
\* file ends with the id on two lines, one from each process.
C39_Witness ==
    /\ \A w \in Writers :
          /\ cw.proc[w].pc = "out"
          /\ cw.proc[w].raced
          /\ cw.proc[w].scanned = {}
          /\ cw.proc[w].n = 1
          /\ "a" \in InputIds(cw.proc[w].records)
    /\ path = <<[id |-> <<"a">>, val |-> "w1"], [id |-> <<"a">>, val |-> "w2"]>>

====
